---- MODULE Spec2Model ----
(***************************************************************************)
(* Model of the autonomous posting loop of AI-TwitterPersona:              *)
(*   - the scheduler control plane of src/app.py (api_control,             *)
(*     api_emergency_stop) and the loop thread run_bot_thread,             *)
(*   - the publisher main.scheduled_tweet of src/main.py with its lazy     *)
(*     client initialisation,                                              *)
(*   - the topic classifier detect_topic_type and the generator            *)
(*     generate_reply of src/reply.py with the topic cache,                *)
(*   - the posting paths of src/app.py that publish a tweet and record it  *)
(*     with database.save_tweets.                                          *)
(* threading.Event is modelled with CPython's semantics: wait() returns    *)
(* True at once when the flag is set, otherwise the caller blocks as a     *)
(* waiter of the event's condition; set() raises the flag and notifies     *)
(* every blocked waiter, and a notified waiter returns True even when the  *)
(* flag has been cleared again before it runs; a waiter that was not       *)
(* notified returns False on timeout.                                      *)
(***************************************************************************)
EXTENDS Integers, Sequences, FiniteSets, TLC

\* ---------------------------------------------------------------- bounds
\* number of loop-thread objects that can be alive at the same time
MaxThreads == 2

Threads == 1..MaxThreads

\* ------------------------------------------------------------- constants
\* main.scheduled_tweet: max_retries = 3
max_retries == 3

VARIABLES
    \* src/app.py module state
    bot_thread,          \* handle of the last spawned loop thread
    bot_running,         \* running flag
    bot_stop_event,      \* flag of the threading.Event
    bot_lock,            \* owner of the bot lock
    bot_start_time,      \* bot_stats["bot_start_time"]
    notified,            \* threads blocked in Event.wait that set() has notified
    pc,                  \* position of every loop thread in run_bot_thread
    ctl_pc,              \* position of the api_control request that is in flight
    resp,                \* last answer of the control plane
    stop_mid,            \* history: threads that were inside generate/publish
                         \* when a stop request raised the stop signal
    stop_wait,           \* history: threads that were blocked in a wait when a
                         \* stop request raised the stop signal
    \* src/main.py module state
    modules_initialized, \* _modules_initialized
    client_initialized,  \* _client_initialized
    client,              \* the Twitter client handle
    \* one call of main.scheduled_tweet
    st_pc,               \* position inside scheduled_tweet
    retry_count,         \* local retry_count
    STATUS,              \* local STATUS
    st_result,           \* value returned by the call
    create_calls,        \* outcomes of the client.create_tweet calls of this call
    st_waits,            \* seconds slept by this call, in order
    \* src/reply.py module state
    topic_cache,         \* the in-memory topic cache
    cache_file,          \* content of topic_cache.json
    model,               \* the Gemini model handle is set (model is not None)
    consecutive_failures,\* rate_limiter.consecutive_failures
    now,                 \* datetime.now(), in days
    cl,                  \* the last call of detect_topic_type: input and outcome
    gn,                  \* the last call of generate_reply: input and outcome
    \* src/database.py
    posts,               \* rows of the tweets table, in insertion order
    publish_log,         \* results of the scheduled_tweet calls made by the
                         \* posting paths, in order
    post_pc,             \* position of the loop thread in its posting cycle
    post_status,         \* the publish call of the loop's current cycle
    \* src/trend.py: one call of prepareTrend
    tr_in,               \* the response of the trends site and the limit
    tr_out,              \* value returned by the call
    \* two threads inside the tail of detect_topic_type and save_cache
    sv_pc,               \* position of each thread
    cleaned_cache,       \* each thread's local cleaned_cache
    \* src/main.py locks and the threads that take them
    init_lock,           \* owner of _init_lock
    client_lock,         \* owner of _client_lock
    ipc,                 \* position of each thread
    \* src/app.py: the request of api_bulk_retry that is in flight
    bulk                 \* its position and the rows it has still to retry

botVars == <<bot_thread, bot_running, bot_stop_event, bot_lock, bot_start_time,
             notified, pc, ctl_pc, resp, stop_mid, stop_wait>>
mainVars == <<modules_initialized, client_initialized, client>>
stVars == <<st_pc, retry_count, STATUS, st_result, create_calls, st_waits>>
replyVars == <<topic_cache, cache_file, model, consecutive_failures, now, cl, gn>>
postVars == <<posts, publish_log, post_pc, post_status>>
trendVars == <<tr_in, tr_out>>
saveVars == <<sv_pc, cleaned_cache>>
lockVars == <<init_lock, client_lock, ipc>>
extVars == <<tr_in, tr_out, sv_pc, cleaned_cache, init_lock, client_lock, ipc, bulk>>
vars == <<bot_thread, bot_running, bot_stop_event, bot_lock, bot_start_time,
          notified, pc, ctl_pc, resp, stop_mid, stop_wait,
          modules_initialized, client_initialized, client,
          st_pc, retry_count, STATUS, st_result, create_calls, st_waits,
          topic_cache, cache_file, model, consecutive_failures, now, cl, gn,
          posts, publish_log, post_pc, post_status,
          tr_in, tr_out, sv_pc, cleaned_cache, init_lock, client_lock, ipc,
          bulk>>

\* ------------------------------------------------------------ lock owners
\* values of the thread handle: None, a Thread object that was started in
\* slot t, a Thread object whose start() failed
NoThread == <<"None", 0>>
Handle(t) == <<"Thread", t>>
Unstarted == <<"Thread", 0>>
\* values of the recorded start time: None, the time at which slot t started
NoTime == <<"None", 0>>
TimeOf(t) == <<"datetime", t>>
Free == <<"free", 0>>
CtlOwner == <<"api_control", 0>>
ThreadOwner(t) == <<"run_bot_thread", t>>

\* --------------------------------------------------------- thread helpers
WaitStates == {"wait_cycle", "wait_notrend", "wait_declined", "wait_error"}
InCall == {"generate", "publish"}

is_alive(t) == pc[t] # "dead"

AliveThreads == {t \in Threads : is_alive(t)}

\* bot_thread and bot_thread.is_alive()
handle_alive == \E t \in Threads : bot_thread = Handle(t) /\ is_alive(t)

\* threading.Event.set(): every waiter blocked at this moment is notified
EventSetNotified == notified \cup {t \in Threads : pc[t] \in WaitStates}

\* bot_stop_event.wait(timeout=...) called by thread t; w names the wait.
\* With the flag set the call returns True at once and the loop breaks.
EnterWait(t, w) ==
    IF bot_stop_event
    THEN pc' = [pc EXCEPT ![t] = "finally"]
    ELSE pc' = [pc EXCEPT ![t] = w]

\* ------------------------------------------------ texts (shared helpers)
\* A text is a sequence of words; " " stands for a run of whitespace.
Lower(w) ==
    CASE w = "Rate" -> "rate"
      [] w = "Limit" -> "limit"
      [] w = "Too" -> "too"
      [] w = "Many" -> "many"
      [] w = "Requests" -> "requests"
      [] w = "Forbidden" -> "forbidden"
      [] w = "Unauthorized" -> "unauthorized"
      [] w = "AI" -> "ai"
      [] w = "Sad" -> "sad"
      [] w = "Tech" -> "tech"
      [] OTHER -> w

lower(msg) == [i \in 1..Len(msg) |-> Lower(msg[i])]

\* str.strip()
RECURSIVE strip(_)
strip(txt) ==
    IF txt = <<>> THEN <<>>
    ELSE IF Head(txt) = " " THEN strip(Tail(txt))
    ELSE IF txt[Len(txt)] = " " THEN strip(SubSeq(txt, 1, Len(txt) - 1))
    ELSE txt

\* ------------------------------------------------- reply.py: cache entries
\* bound on the clock
MaxNow == 2

\* timedelta(days=7)
ExpiryDays == 7

Categories == {"tech", "casual", "sad"}

\* topics handed to detect_topic_type
Topics == { <<"AI">>, <<" ", "ai", " ">>, <<"Sad", "news">> }

\* user_input.strip().lower()
Normalize(topic) == lower(strip(topic))

Keys == {Normalize(topic) : topic \in Topics}

\* values of a timestamp field: an ISO time (in days), a text that
\* datetime.fromisoformat rejects, or no 'timestamp' key
Iso(n) == <<"iso", n>>
BadTime == <<"bad", 0>>
NoStamp == <<"absent", 0>>

\* values of topic_cache[key].  kind "str" is a bare string (category holds
\* it); kind "dict" is a JSON object, whose 'category' and 'timestamp' keys
\* may be missing; kind "other" is any other JSON value; NoEntry: key absent.
NoCategory == "<absent>"
NoEntry == [kind |-> "absent", category |-> NoCategory, ts |-> NoStamp]
StrEntry(c) == [kind |-> "str", category |-> c, ts |-> NoStamp]
DictEntry(c, ts) == [kind |-> "dict", category |-> c, ts |-> ts]
OtherEntry == [kind |-> "other", category |-> NoCategory, ts |-> NoStamp]

\* str(data) of a value that is not a string: its repr
Repr == "<repr>"

\* entries a cache file can hold when the module is loaded at time 0: none,
\* a bare string, a record that reaches the age of ExpiryDays at time 1, a
\* record that is older, a record without timestamp, a record with an
\* unparsable timestamp, a value of another shape
LoadedEntries ==
    { NoEntry,
      StrEntry("sad"),
      DictEntry("tech", Iso(1 - ExpiryDays)),
      DictEntry("casual", Iso(0 - ExpiryDays - 1)),
      DictEntry("tech", NoStamp),
      DictEntry("sad", BadTime),
      OtherEntry }

EmptyCache == [k \in Keys |-> NoEntry]

\* no call has been made yet
NoCall == [key |-> <<>>, result |-> "none", calls |-> 0, exc |-> "none",
           slept |-> 0, io_ok |-> TRUE]
NoGen == [result |-> <<"none", <<>>>>, persona |-> "none", store |-> "unused",
          prompts |-> {}, sent |-> 0, exc |-> "none", slept |-> 0]

InitBot ==
    /\ bot_thread = NoThread
    /\ bot_running = FALSE
    /\ bot_stop_event = FALSE
    /\ bot_lock = Free
    /\ bot_start_time = NoTime
    /\ notified = {}
    /\ pc = [t \in Threads |-> "dead"]
    /\ ctl_pc = "idle"
    /\ resp = "none"
    /\ stop_mid = {}
    /\ stop_wait = {}

InitMain ==
    /\ modules_initialized = FALSE
    /\ client_initialized = FALSE
    /\ client = "None"

InitST ==
    /\ st_pc = "idle"
    /\ retry_count = 0
    /\ STATUS = FALSE
    /\ st_result = "none"
    /\ create_calls = <<>>
    /\ st_waits = <<>>

\* reply.py after import, for a given content of topic_cache.json
InitReply(loaded) ==
    /\ topic_cache = loaded
    /\ cache_file = loaded
    /\ model = FALSE
    /\ consecutive_failures = 0
    /\ now = 0
    /\ cl = NoCall
    /\ gn = NoGen

\* the loop has published nothing in its current cycle / it has made the
\* i-th publish call
NoPublish == <<"none", 0>>
Published(i) == <<"published", i>>

\* an empty tweets table, no publish call made, the loop thread at the head
\* of an iteration
InitPost ==
    /\ posts = <<>>
    /\ publish_log = <<>>
    /\ post_pc = "iter"
    /\ post_status = NoPublish

\* no call of prepareTrend made
NoPage == [status |-> 0, text |-> "", rows |-> <<>>, limit |-> 0]
NoLines == <<"none", <<>>>>

InitTrendVars ==
    /\ tr_in = NoPage
    /\ tr_out = NoLines

\* the two threads that classify concurrently: the loop thread and the
\* handler of a forced post; neither is inside detect_topic_type
Classifiers == {"loop", "force"}

InitSave ==
    /\ sv_pc = [w \in Classifiers |-> "idle"]
    /\ cleaned_cache = [w \in Classifiers |-> EmptyCache]

\* the threads that take the locks of main.py: two run the initialisation
\* calls, one runs reset_initialization
Initializers == {"loop", "handler", "reset"}
Unlocked == "unlocked"

InitLocks ==
    /\ init_lock = Unlocked
    /\ client_lock = Unlocked
    /\ ipc = [w \in Initializers |-> "idle"]

\* no bulk retry in flight
NoBulk == [pc |-> "idle", todo |-> <<>>]

InitBulk == bulk = NoBulk

InitExt == InitTrendVars /\ InitSave /\ InitLocks /\ InitBulk

\* the process after start-up, without a cache file
Init == InitBot /\ InitMain /\ InitST /\ InitReply(EmptyCache) /\ InitPost /\ InitExt

\* ===================================================== control plane (app.py)
\* api_control: `with bot_lock:` entered by a start or stop request.  A
\* request that finds the lock taken blocks before it has read any state, so
\* one request in flight at a time covers every interleaving.
api_control_acquire(action) ==
    /\ ctl_pc = "idle"
    /\ bot_lock = Free
    /\ action \in {"start", "stop"}
    /\ bot_lock' = CtlOwner
    /\ ctl_pc' = action
    /\ UNCHANGED <<bot_thread, bot_running, bot_stop_event, bot_start_time,
                   notified, pc, resp, stop_mid, stop_wait>>
    /\ UNCHANGED <<mainVars, stVars, replyVars, postVars, extVars>>

\* api_control 'start' without the `not bot_running` condition
api_control_start_unguarded ==
    /\ ctl_pc = "start"
    /\ \E t \in Threads :
          /\ ~is_alive(t)
          /\ bot_stop_event' = FALSE
          /\ bot_thread' = Handle(t)
          /\ pc' = [pc EXCEPT ![t] = "start"]
          /\ bot_running' = TRUE
          /\ bot_start_time' = TimeOf(t)
          /\ resp' = "start_ok"
    /\ bot_lock' = Free
    /\ ctl_pc' = "idle"
    /\ UNCHANGED <<notified, stop_mid, stop_wait>>
    /\ UNCHANGED <<mainVars, stVars, replyVars, postVars, extVars>>

\* api_control, action == 'start', under the lock
api_control_start ==
    /\ ctl_pc = "start"
    /\ IF ~bot_running
       THEN IF \E t \in Threads : ~is_alive(t)
            THEN \E t \in Threads :
                    /\ ~is_alive(t)
                    /\ bot_stop_event' = FALSE
                    /\ bot_thread' = Handle(t)
                    /\ pc' = [pc EXCEPT ![t] = "start"]
                    /\ bot_running' = TRUE
                    /\ bot_start_time' = TimeOf(t)
                    /\ resp' = "start_ok"
            ELSE \* threading.Thread.start() raises: no thread can be created
                 /\ bot_stop_event' = FALSE
                 /\ bot_thread' = Unstarted
                 /\ resp' = "start_error"
                 /\ UNCHANGED <<pc, bot_running, bot_start_time>>
       ELSE \* falls through to "Geçersiz işlem"
            /\ resp' = "start_fail"
            /\ UNCHANGED <<bot_stop_event, bot_thread, pc, bot_running,
                           bot_start_time>>
    /\ bot_lock' = Free
    /\ ctl_pc' = "idle"
    /\ UNCHANGED <<notified, stop_mid, stop_wait>>
    /\ UNCHANGED <<mainVars, stVars, replyVars, postVars, extVars>>

\* api_control 'stop' without the `bot_running` condition
api_control_stop_unguarded ==
    /\ ctl_pc = "stop"
    /\ bot_running' = FALSE
    /\ bot_stop_event' = TRUE
    /\ notified' = EventSetNotified
    /\ stop_mid' = stop_mid \cup {t \in Threads : pc[t] \in InCall}
    /\ stop_wait' = stop_wait \cup {t \in Threads : pc[t] \in WaitStates}
    /\ ctl_pc' = "join"
    /\ UNCHANGED <<bot_lock, resp>>
    /\ UNCHANGED <<bot_thread, bot_start_time, pc>>
    /\ UNCHANGED <<mainVars, stVars, replyVars, postVars, extVars>>

\* api_control, action == 'stop', under the lock, up to the bounded join
api_control_stop ==
    /\ ctl_pc = "stop"
    /\ IF bot_running
       THEN /\ bot_running' = FALSE
            /\ bot_stop_event' = TRUE
            /\ notified' = EventSetNotified
            /\ stop_mid' = stop_mid \cup {t \in Threads : pc[t] \in InCall}
            /\ stop_wait' = stop_wait \cup {t \in Threads : pc[t] \in WaitStates}
            /\ ctl_pc' = "join"
            /\ UNCHANGED <<bot_lock, resp>>
       ELSE \* falls through to "Geçersiz işlem"
            /\ resp' = "stop_fail"
            /\ bot_lock' = Free
            /\ ctl_pc' = "idle"
            /\ UNCHANGED <<bot_running, bot_stop_event, notified, stop_mid,
                           stop_wait>>
    /\ UNCHANGED <<bot_thread, bot_start_time, pc>>
    /\ UNCHANGED <<mainVars, stVars, replyVars, postVars, extVars>>

\* variant: bot_thread.join() without a timeout returns only when the thread
\* has ended
api_control_stop_join_no_timeout ==
    /\ ctl_pc = "join"
    /\ ~handle_alive
    /\ bot_stop_event' = FALSE
    /\ bot_start_time' = NoTime
    /\ resp' = "stop_ok"
    /\ bot_lock' = Free
    /\ ctl_pc' = "idle"
    /\ UNCHANGED <<bot_thread, bot_running, notified, pc, stop_mid,
                   stop_wait>>
    /\ UNCHANGED <<mainVars, stVars, replyVars, postVars, extVars>>

\* api_control, action == 'stop': bot_thread.join(timeout=3.0) returns (the
\* thread has ended, or the timeout has passed), then the signal is cleared
api_control_stop_join ==
    /\ ctl_pc = "join"
    /\ bot_stop_event' = FALSE
    /\ bot_start_time' = NoTime
    /\ resp' = "stop_ok"
    /\ bot_lock' = Free
    /\ ctl_pc' = "idle"
    /\ UNCHANGED <<bot_thread, bot_running, notified, pc, stop_mid,
                   stop_wait>>
    /\ UNCHANGED <<mainVars, stVars, replyVars, postVars, extVars>>

\* api_emergency_stop: no lock is taken, the stop signal is not touched
api_emergency_stop ==
    /\ bot_running' = FALSE
    /\ resp' = "emergency_ok"
    /\ UNCHANGED <<bot_thread, bot_stop_event, bot_lock, bot_start_time,
                   notified, pc, ctl_pc, stop_mid, stop_wait>>
    /\ UNCHANGED <<mainVars, stVars, replyVars, postVars, extVars>>

\* ================================================ run_bot_thread (app.py)
\* outcomes of reply.generate_reply as seen by the loop: a text, the empty
\* string, or an exception (model.start_chat and the prompt lookup are
\* outside its try block).  generate_reply has no `return None`.
GenerateOutcomes == {"text", "empty", "raise"}

\* main.initialize_bot_modules(): True when already initialised, otherwise
\* the imports succeed (ok) and the flag is set, or fail and it stays false
initialize_bot_modules(ok) == modules_initialized \/ ok

\* run_bot_thread up to the while loop: main.initialize_bot_modules()
run_bot_thread_start(t) ==
    /\ pc[t] = "start"
    /\ \E ok \in BOOLEAN :
          /\ modules_initialized' = initialize_bot_modules(ok)
          /\ pc' = [pc EXCEPT ![t] = IF initialize_bot_modules(ok)
                                     THEN "check" ELSE "initfail"]
    /\ UNCHANGED <<bot_thread, bot_running, bot_stop_event, bot_lock,
                   bot_start_time, notified, ctl_pc, resp, stop_mid, stop_wait>>
    /\ UNCHANGED <<client_initialized, client, stVars, replyVars, postVars, extVars>>

\* `with bot_lock:` entered by the loop thread (init failure, finally)
run_bot_thread_acquire(t) ==
    /\ pc[t] \in {"initfail", "finally"}
    /\ bot_lock = Free
    /\ bot_lock' = ThreadOwner(t)
    /\ pc' = [pc EXCEPT ![t] = IF pc[t] = "initfail" THEN "initfail_locked"
                                                      ELSE "finally_locked"]
    /\ UNCHANGED <<bot_thread, bot_running, bot_stop_event, bot_start_time,
                   notified, ctl_pc, resp, stop_mid, stop_wait>>
    /\ UNCHANGED <<mainVars, stVars, replyVars, postVars, extVars>>

\* init failure: bot_running = False under the lock, then `return` runs the
\* finally block
run_bot_thread_initfail(t) ==
    /\ pc[t] = "initfail_locked"
    /\ bot_running' = FALSE
    /\ bot_lock' = Free
    /\ pc' = [pc EXCEPT ![t] = "finally"]
    /\ UNCHANGED <<bot_thread, bot_stop_event, bot_start_time, notified,
                   ctl_pc, resp, stop_mid, stop_wait>>
    /\ UNCHANGED <<mainVars, stVars, replyVars, postVars, extVars>>

\* while not bot_stop_event.is_set():
run_bot_thread_check(t) ==
    /\ pc[t] = "check"
    /\ pc' = [pc EXCEPT ![t] = IF bot_stop_event THEN "finally" ELSE "iter"]
    /\ UNCHANGED <<bot_thread, bot_running, bot_stop_event, bot_lock,
                   bot_start_time, notified, ctl_pc, resp, stop_mid, stop_wait>>
    /\ UNCHANGED <<mainVars, stVars, replyVars, postVars, extVars>>

\* head of one iteration: isTrendingTime, trending_tweets, the prompt
run_bot_thread_iter(t) ==
    /\ pc[t] = "iter"
    /\ \E o \in {"sleep_hour", "topic", "no_topic", "raise"} :
          CASE o = "raise" -> pc' = [pc EXCEPT ![t] = "cycle_error"]
            [] o = "no_topic" -> EnterWait(t, "wait_notrend")
            [] OTHER -> pc' = [pc EXCEPT ![t] = "generate"]
    /\ UNCHANGED <<bot_thread, bot_running, bot_stop_event, bot_lock,
                   bot_start_time, notified, ctl_pc, resp, stop_mid, stop_wait>>
    /\ UNCHANGED <<mainVars, stVars, replyVars, postVars, extVars>>

\* the branch on the value of generate_reply(prompt)
GenerateBranch(t, r) ==
    CASE r = "raise" -> pc' = [pc EXCEPT ![t] = "cycle_error"]
      [] r = "none" -> EnterWait(t, "wait_declined")
      [] r = "text" -> pc' = [pc EXCEPT ![t] = "publish"]
      [] OTHER -> EnterWait(t, "wait_cycle")

\* the generate step without the per-iteration try: an exception ends the loop
run_bot_thread_generate_uncaught(t) ==
    /\ pc[t] = "generate"
    /\ \E r \in GenerateOutcomes :
          IF r = "raise"
          THEN pc' = [pc EXCEPT ![t] = "thread_error"]
          ELSE GenerateBranch(t, r)
    /\ UNCHANGED <<bot_thread, bot_running, bot_stop_event, bot_lock,
                   bot_start_time, notified, ctl_pc, resp, stop_mid, stop_wait>>
    /\ UNCHANGED <<mainVars, stVars, replyVars, postVars, extVars>>

\* reply.generate_reply(prompt) returns to the loop
run_bot_thread_generate(t) ==
    /\ pc[t] = "generate"
    /\ \E r \in GenerateOutcomes : GenerateBranch(t, r)
    /\ UNCHANGED <<bot_thread, bot_running, bot_stop_event, bot_lock,
                   bot_start_time, notified, ctl_pc, resp, stop_mid, stop_wait>>
    /\ UNCHANGED <<mainVars, stVars, replyVars, postVars, extVars>>

\* main.scheduled_tweet(tweet) returns, then save_tweets, the broadcasts and
\* the call of the cycle sleep
run_bot_thread_publish(t) ==
    /\ pc[t] = "publish"
    /\ \E status \in BOOLEAN, raises \in BOOLEAN :
          IF raises
          THEN pc' = [pc EXCEPT ![t] = "cycle_error"]
          ELSE EnterWait(t, "wait_cycle")
    /\ UNCHANGED <<bot_thread, bot_running, bot_stop_event, bot_lock,
                   bot_start_time, notified, ctl_pc, resp, stop_mid, stop_wait>>
    /\ UNCHANGED <<mainVars, stVars, replyVars, postVars, extVars>>

\* except Exception as cycle_error: log, broadcast, wait 60 seconds.  An
\* exception raised by the handler itself escapes to the outer handler.
run_bot_thread_cycle_error(t) ==
    /\ pc[t] = "cycle_error"
    /\ \E escapes \in BOOLEAN :
          IF escapes
          THEN pc' = [pc EXCEPT ![t] = "thread_error"]
          ELSE EnterWait(t, "wait_error")
    /\ UNCHANGED <<bot_thread, bot_running, bot_stop_event, bot_lock,
                   bot_start_time, notified, ctl_pc, resp, stop_mid, stop_wait>>
    /\ UNCHANGED <<mainVars, stVars, replyVars, postVars, extVars>>

\* except Exception as e: the outer handler logs, then the finally block runs
run_bot_thread_thread_error(t) ==
    /\ pc[t] = "thread_error"
    /\ pc' = [pc EXCEPT ![t] = "finally"]
    /\ UNCHANGED <<bot_thread, bot_running, bot_stop_event, bot_lock,
                   bot_start_time, notified, ctl_pc, resp, stop_mid, stop_wait>>
    /\ UNCHANGED <<mainVars, stVars, replyVars, postVars, extVars>>

\* a wait that looks at the flag when it wakes up instead of being notified
run_bot_thread_wait_polling(t) ==
    /\ pc[t] \in WaitStates
    /\ pc' = [pc EXCEPT ![t] = IF bot_stop_event THEN "finally" ELSE "check"]
    /\ notified' = notified \ {t}
    /\ UNCHANGED <<bot_thread, bot_running, bot_stop_event, bot_lock,
                   bot_start_time, ctl_pc, resp, stop_mid, stop_wait>>
    /\ UNCHANGED <<mainVars, stVars, replyVars, postVars, extVars>>

\* bot_stop_event.wait(timeout) returns: True (break) to a notified waiter,
\* False after the timeout (back to the while condition)
run_bot_thread_wait(t) ==
    /\ pc[t] \in WaitStates
    /\ pc' = [pc EXCEPT ![t] = IF t \in notified THEN "finally" ELSE "check"]
    /\ notified' = notified \ {t}
    /\ UNCHANGED <<bot_thread, bot_running, bot_stop_event, bot_lock,
                   bot_start_time, ctl_pc, resp, stop_mid, stop_wait>>
    /\ UNCHANGED <<mainVars, stVars, replyVars, postVars, extVars>>

\* a finally block that releases the lock without resetting the flag
run_bot_thread_finally_noreset(t) ==
    /\ pc[t] = "finally_locked"
    /\ bot_lock' = Free
    /\ pc' = [pc EXCEPT ![t] = "tail"]
    /\ UNCHANGED <<bot_thread, bot_running, bot_stop_event, bot_start_time,
                   notified, ctl_pc, resp, stop_mid, stop_wait>>
    /\ UNCHANGED <<mainVars, stVars, replyVars, postVars, extVars>>

\* finally: bot_running = False under the lock
run_bot_thread_finally(t) ==
    /\ pc[t] = "finally_locked"
    /\ bot_running' = FALSE
    /\ bot_lock' = Free
    /\ pc' = [pc EXCEPT ![t] = "tail"]
    /\ UNCHANGED <<bot_thread, bot_stop_event, bot_start_time, notified,
                   ctl_pc, resp, stop_mid, stop_wait>>
    /\ UNCHANGED <<mainVars, stVars, replyVars, postVars, extVars>>

\* the last log lines of the finally block; the thread ends
run_bot_thread_exit(t) ==
    /\ pc[t] = "tail"
    /\ pc' = [pc EXCEPT ![t] = "dead"]
    /\ stop_mid' = stop_mid \ {t}
    /\ stop_wait' = stop_wait \ {t}
    /\ UNCHANGED <<bot_thread, bot_running, bot_stop_event, bot_lock,
                   bot_start_time, notified, ctl_pc, resp>>
    /\ UNCHANGED <<mainVars, stVars, replyVars, postVars, extVars>>

Next ==
    \/ \E action \in {"start", "stop"} : api_control_acquire(action)
    \/ api_control_start
    \/ api_control_stop
    \/ api_control_stop_join
    \/ api_emergency_stop
    \/ \E t \in Threads : run_bot_thread_start(t)
    \/ \E t \in Threads : run_bot_thread_acquire(t)
    \/ \E t \in Threads : run_bot_thread_initfail(t)
    \/ \E t \in Threads : run_bot_thread_check(t)
    \/ \E t \in Threads : run_bot_thread_iter(t)
    \/ \E t \in Threads : run_bot_thread_generate(t)
    \/ \E t \in Threads : run_bot_thread_publish(t)
    \/ \E t \in Threads : run_bot_thread_cycle_error(t)
    \/ \E t \in Threads : run_bot_thread_thread_error(t)
    \/ \E t \in Threads : run_bot_thread_wait(t)
    \/ \E t \in Threads : run_bot_thread_finally(t)
    \/ \E t \in Threads : run_bot_thread_exit(t)

Spec == Init /\ [][Next]_vars

\* ================================================ scheduled_tweet (main.py)
\* An error text is a sequence of words.  str(e).lower() lowers every word;
\* `"..." in error_msg` is a search for a contiguous run of words.
Contains(sub, msg) ==
    \E i \in 0..(Len(msg) - Len(sub)) :
        \A j \in 1..Len(sub) : msg[i + j] = sub[j]

\* "rate limit" in error_msg or "too many requests" in error_msg
\* or "429" in error_msg
IsRateLimit(msg) ==
    \/ Contains(<<"rate", "limit">>, lower(msg))
    \/ Contains(<<"too", "many", "requests">>, lower(msg))
    \/ Contains(<<"429">>, lower(msg))

\* error texts the post backend can raise
ErrorMessages ==
    { <<"429", "Too", "Many", "Requests">>,
      <<"Rate", "limit", "exceeded">>,
      <<"too", "many", "requests">>,
      <<"403", "Forbidden">>,
      <<"401", "Unauthorized">>,
      <<"limit", "rate", "too", "many">> }

\* outcomes of client.create_tweet: success, or an exception with its text
PostOutcomes == {<<"ok">>} \cup ErrorMessages

\* 2 ** n
RECURSIVE pow2(_)
pow2(n) == IF n = 0 THEN 1 ELSE 2 * pow2(n - 1)

\* scheduled_tweet is entered: STATUS = False, retry_count = 0
scheduled_tweet_call ==
    /\ st_pc = "idle"
    /\ st_pc' = "init_client"
    /\ STATUS' = FALSE
    /\ retry_count' = 0
    /\ st_result' = "none"
    /\ create_calls' = <<>>
    /\ st_waits' = <<>>
    /\ UNCHANGED <<botVars, replyVars, postVars, extVars, mainVars>>

\* initialize_twitter_client(), called by scheduled_tweet; got is what
\* twitter_client.get_client() does
initialize_twitter_client(ok, got) ==
    IF client_initialized
    THEN /\ st_pc' = "loop"
         /\ UNCHANGED <<modules_initialized, client_initialized, client>>
    ELSE /\ modules_initialized' = initialize_bot_modules(ok)
         /\ IF ~initialize_bot_modules(ok)
            THEN /\ st_pc' = "return_false"
                 /\ UNCHANGED <<client_initialized, client>>
            ELSE CASE got = "client" ->
                        /\ client' = "client"
                        /\ client_initialized' = TRUE
                        /\ st_pc' = "loop"
                   [] got = "None" ->
                        /\ client' = "None"
                        /\ st_pc' = "return_false"
                        /\ UNCHANGED client_initialized
                   [] OTHER ->
                        /\ st_pc' = "return_false"
                        /\ UNCHANGED <<client_initialized, client>>

scheduled_tweet_init ==
    /\ st_pc = "init_client"
    /\ \E ok \in BOOLEAN, got \in {"client", "None", "raise"} :
          initialize_twitter_client(ok, got)
    /\ UNCHANGED <<botVars, replyVars, postVars, extVars, retry_count, STATUS, st_result, create_calls,
                   st_waits>>

\* `return False` after the failed client initialisation
scheduled_tweet_no_client ==
    /\ st_pc = "return_false"
    /\ st_result' = "False"
    /\ st_pc' = "returned"
    /\ UNCHANGED <<botVars, replyVars, postVars, extVars, mainVars, retry_count, STATUS, create_calls,
                   st_waits>>

\* a pass that retries after every error, not only after a rate-limit error
PostAttempt_retry_any(o) ==
    /\ create_calls' = Append(create_calls, o)
    /\ IF o = <<"ok">>
       THEN /\ STATUS' = TRUE
            /\ st_result' = "True"
            /\ st_pc' = "returned"
            /\ UNCHANGED <<retry_count, st_waits>>
       ELSE /\ retry_count' = retry_count + 1
            /\ IF retry_count + 1 < max_retries
               THEN /\ st_waits' = Append(st_waits, pow2(retry_count + 1) * 60)
                    /\ st_pc' = "sleeping"
                    /\ UNCHANGED <<STATUS, st_result>>
               ELSE /\ st_result' = IF STATUS THEN "True" ELSE "False"
                    /\ st_pc' = "returned"
                    /\ UNCHANGED <<STATUS, st_waits>>

\* a pass that records the success but goes on looping instead of returning
PostAttempt_no_return(o) ==
    /\ create_calls' = Append(create_calls, o)
    /\ IF o = <<"ok">>
       THEN /\ STATUS' = TRUE
            /\ retry_count' = retry_count + 1
            /\ st_pc' = "loop"
            /\ UNCHANGED <<st_result, st_waits>>
       ELSE /\ st_result' = IF STATUS THEN "True" ELSE "False"
            /\ st_pc' = "returned"
            /\ UNCHANGED <<STATUS, retry_count, st_waits>>

\* what one pass of the while loop does with the outcome o of create_tweet
PostAttempt(o) ==
    /\ create_calls' = Append(create_calls, o)
    /\ IF o = <<"ok">>
       THEN /\ STATUS' = TRUE
            /\ st_result' = "True"
            /\ st_pc' = "returned"
            /\ UNCHANGED <<retry_count, st_waits>>
       ELSE IF IsRateLimit(o)
            THEN /\ retry_count' = retry_count + 1
                 /\ IF retry_count + 1 < max_retries
                    THEN /\ st_waits' = Append(st_waits, pow2(retry_count + 1) * 60)
                         /\ st_pc' = "sleeping"
                         /\ UNCHANGED <<STATUS, st_result>>
                    ELSE /\ st_result' = IF STATUS THEN "True" ELSE "False"
                         /\ st_pc' = "returned"
                         /\ UNCHANGED <<STATUS, st_waits>>
            ELSE /\ st_result' = IF STATUS THEN "True" ELSE "False"
                 /\ st_pc' = "returned"
                 /\ UNCHANGED <<STATUS, retry_count, st_waits>>

\* while retry_count < max_retries: one create_tweet call and its handling
scheduled_tweet_attempt ==
    /\ st_pc = "loop"
    /\ IF retry_count < max_retries
       THEN \E o \in PostOutcomes : PostAttempt(o)
       ELSE /\ st_result' = IF STATUS THEN "True" ELSE "False"
            /\ st_pc' = "returned"
            /\ UNCHANGED <<STATUS, retry_count, create_calls, st_waits>>
    /\ UNCHANGED <<botVars, replyVars, postVars, extVars, mainVars>>

\* time.sleep(wait_time) ends, `continue`
scheduled_tweet_sleep ==
    /\ st_pc = "sleeping"
    /\ st_pc' = "loop"
    /\ UNCHANGED <<botVars, replyVars, postVars, extVars, mainVars, retry_count, STATUS, st_result,
                   create_calls, st_waits>>

\* the caller has taken the result; the next call may begin
scheduled_tweet_done ==
    /\ st_pc = "returned"
    /\ st_pc' = "idle"
    /\ UNCHANGED <<botVars, replyVars, postVars, extVars, mainVars, retry_count, STATUS, st_result,
                   create_calls, st_waits>>

NextPublish ==
    \/ scheduled_tweet_call
    \/ scheduled_tweet_init
    \/ scheduled_tweet_no_client
    \/ scheduled_tweet_attempt
    \/ scheduled_tweet_sleep
    \/ scheduled_tweet_done

SpecPublish == Init /\ [][NextPublish]_vars

\* ================================================ detect_topic_type (reply.py)
\* names bound in the module namespace of reply.py: its imports and its own
\* top-level definitions.  `time` is imported only inside save_cache;
\* `requests` and `rate_limiter` are bound nowhere in the repository.
ReplyGlobals ==
    {"get_config", "get_float_config", "get_int_config", "os", "logging",
     "json", "genai", "google", "database", "model", "topic_cache"}

\* exceptions the Gemini calls can raise
GeminiErrors ==
    {"InvalidArgument", "ResourceExhausted", "PermissionDenied", "NotFound",
     "DeadlineExceeded", "ServiceUnavailable", "InternalServerError",
     "ValueError"}

\* texts the classification request can return
ClassifyReplies == { <<"Tech", " ">>, <<"sad">>, <<"politics">> }

\* outcomes of a Gemini call: a text or an exception
ClassifyBackend ==
    {<<"text", r>> : r \in ClassifyReplies} \cup {<<"error", <<e>>>> : e \in GeminiErrors}

\* the except clauses of detect_topic_type, in order: the exception class a
\* clause names and the module-level name its expression looks up
DetectChain ==
    << [class |-> "InvalidArgument", name |-> "google"],
       [class |-> "ResourceExhausted", name |-> "google"],
       [class |-> "PermissionDenied", name |-> "google"],
       [class |-> "NotFound", name |-> "google"],
       [class |-> "DeadlineExceeded", name |-> "google"],
       [class |-> "ServiceUnavailable", name |-> "google"],
       [class |-> "ConnectionError", name |-> "requests"],
       [class |-> "Timeout", name |-> "requests"],
       [class |-> "JSONDecodeError", name |-> "json"],
       [class |-> "Exception", name |-> "Exception"] >>

\* Python matches a raised exception e against the clauses in order; the
\* expression of a clause is evaluated when the clause is reached, and an
\* unbound name in it raises NameError in place of e.
RECURSIVE MatchClause(_, _)
MatchClause(chain, e) ==
    IF chain = <<>> THEN "uncaught"
    ELSE IF Head(chain).name \notin ReplyGlobals \cup {"Exception"}
         THEN "NameError"
    ELSE IF Head(chain).class \in {e, "Exception"} THEN Head(chain).class
    ELSE MatchClause(Tail(chain), e)

Min(a, b) == IF a < b THEN a ELSE b

\* variant: a record with a timestamp is never served from the cache
CacheLookup_no_hit(e, t) ==
    CASE e.kind = "absent" -> <<"miss">>
      [] e.kind = "str" -> <<"hit", e.category>>
      [] e.kind = "dict" /\ e.category # NoCategory ->
            IF e.ts[1] = "iso" THEN <<"expired">> ELSE <<"hit", e.category>>
      [] OTHER -> <<"hit", Repr>>

\* the cache check at the head of detect_topic_type for entry e at time t:
\* the value returned on a hit, "expired" or "miss"
CacheLookup(e, t) ==
    CASE e.kind = "absent" -> <<"miss">>
      [] e.kind = "str" -> <<"hit", e.category>>
      [] e.kind = "dict" /\ e.category # NoCategory ->
            IF e.ts[1] = "iso"
            THEN IF t - e.ts[2] >= ExpiryDays
                 THEN <<"expired">>
                 ELSE <<"hit", e.category>>
            ELSE <<"hit", e.category>>
      [] OTHER -> <<"hit", Repr>>

\* save_cache(): the cleaned copy of cache c at time t
CleanEntry(e, t) ==
    CASE e.kind = "absent" -> NoEntry
      [] e.kind = "str" -> DictEntry(e.category, Iso(t))
      [] e.kind = "dict" /\ e.ts # NoStamp ->
            IF t - e.ts[2] < ExpiryDays THEN e ELSE NoEntry
      [] OTHER -> DictEntry(Repr, Iso(t))

\* variant: the cache is cleaned but the file is never written
save_cache_nowrite(c, f, t, io_ok) ==
    IF \E k \in Keys : c[k].kind = "dict" /\ c[k].ts = BadTime
    THEN [cache |-> c, file |-> f]
    ELSE [cache |-> [k \in Keys |-> CleanEntry(c[k], t)], file |-> f]

\* save_cache() on cache c and file f.  datetime.fromisoformat raises on an
\* unparsable timestamp and the except clause ends the save: nothing changes.
\* Otherwise the cache is replaced by its cleaned copy and the file is
\* rewritten, unless opening it fails (io_ok false).
save_cache(c, f, t, io_ok) ==
    IF \E k \in Keys : c[k].kind = "dict" /\ c[k].ts = BadTime
    THEN [cache |-> c, file |-> f]
    ELSE LET cleaned == [k \in Keys |-> CleanEntry(c[k], t)]
         IN  [cache |-> cleaned, file |-> IF io_ok THEN cleaned ELSE f]

\* the quota handler of detect_topic_type: rate_limiter.record_failure(),
\* time.sleep(min(2 ** failures * 60, 1800)), category = "casual"
DetectQuotaHandler(failures) ==
    IF {"rate_limiter", "time"} \subseteq ReplyGlobals
    THEN [raised |-> FALSE, failures |-> failures + 1,
          slept |-> Min(pow2(failures + 1) * 60, 1800)]
    ELSE [raised |-> TRUE, failures |-> failures, slept |-> 0]

\* the category the try block of detect_topic_type ends with for backend
\* outcome b, or a NameError that leaves the function
DetectTry(b, failures) ==
    IF b[1] = "text"
    THEN [raised |-> FALSE, failures |-> failures, slept |-> 0,
          category |-> IF Normalize(b[2]) \in {<<c>> : c \in Categories}
                       THEN Normalize(b[2])[1] ELSE "casual"]
    ELSE LET clause == MatchClause(DetectChain, b[2][1])
         IN  IF clause = "NameError"
             THEN [raised |-> TRUE, failures |-> failures, slept |-> 0,
                   category |-> "none"]
             ELSE IF clause = "ResourceExhausted"
             THEN [raised |-> DetectQuotaHandler(failures).raised,
                   failures |-> DetectQuotaHandler(failures).failures,
                   slept |-> DetectQuotaHandler(failures).slept,
                   category |-> "casual"]
             ELSE [raised |-> FALSE, failures |-> failures, slept |-> 0,
                   category |-> "casual"]

\* detect_topic_type(topic) run in state (c, f, m, failures) at time t, with
\* what its environment does: gem_ok (initialize_gemini can build the model),
\* b (outcome of the Gemini call), io_ok (the cache file can be written)
ClassifyOut(c, f, m, failures, t, topic, gem_ok, b, io_ok) ==
    LET key == Normalize(topic)
        look == CacheLookup(c[key], t)
        c1 == IF look[1] = "expired" THEN [c EXCEPT ![key] = NoEntry] ELSE c
        ready == m \/ gem_ok
        try == DetectTry(b, failures)
        c2 == [c1 EXCEPT ![key] = DictEntry(try.category, Iso(t))]
        saved == save_cache(c2, f, t, io_ok)
    IN  IF look[1] = "hit"
        THEN [key |-> key, result |-> look[2], cache |-> c, file |-> f, model |-> m,
              calls |-> 0, exc |-> "none", slept |-> 0, failures |-> failures]
        ELSE IF ~ready
        THEN [key |-> key, result |-> "casual", cache |-> c1, file |-> f, model |-> m,
              calls |-> 0, exc |-> "none", slept |-> 0, failures |-> failures]
        ELSE IF try.raised
        THEN [key |-> key, result |-> "NameError", cache |-> c1, file |-> f, model |-> TRUE,
              calls |-> 1, exc |-> b[2][1], slept |-> 0, failures |-> failures]
        ELSE [key |-> key, result |-> try.category, cache |-> saved.cache,
              file |-> saved.file, model |-> TRUE, calls |-> 1,
              exc |-> IF b[1] = "error" THEN b[2][1] ELSE "none",
              slept |-> try.slept, failures |-> try.failures]

\* a choice of the environment that the call does not consult is fixed, so
\* that one behaviour of the call is one step: no Gemini outcome without a
\* Gemini call, no file outcome without a save
NoBackend == <<"unused">>
EnvConsulted(topic, gem_ok, b, io_ok) ==
    LET hit == CacheLookup(topic_cache[Normalize(topic)], now)[1] = "hit"
        called == ~hit /\ (model \/ gem_ok)
    IN  /\ (b = NoBackend) <=> ~called
        /\ (hit \/ model) => gem_ok
        /\ (~called \/ DetectTry(b, consecutive_failures).raised) => io_ok

\* one call of detect_topic_type
detect_topic_type(topic, gem_ok, b, io_ok) ==
    LET out == ClassifyOut(topic_cache, cache_file, model,
                           consecutive_failures, now, topic, gem_ok, b, io_ok)
    IN  /\ EnvConsulted(topic, gem_ok, b, io_ok)
        /\ topic_cache' = out.cache
        /\ cache_file' = out.file
        /\ model' = out.model
        /\ consecutive_failures' = out.failures
        /\ cl' = [key |-> out.key, result |-> out.result, calls |-> out.calls,
                  exc |-> out.exc, slept |-> out.slept, io_ok |-> io_ok]
        /\ UNCHANGED <<now, gn>>
        /\ UNCHANGED <<botVars, mainVars, stVars, postVars, extVars>>

\* time passes
Tick ==
    /\ now < MaxNow
    /\ now' = now + 1
    /\ UNCHANGED <<topic_cache, cache_file, model, consecutive_failures, cl, gn>>
    /\ UNCHANGED <<botVars, mainVars, stVars, postVars, extVars>>

InitClassify ==
    /\ InitBot /\ InitMain /\ InitST /\ InitPost /\ InitExt
    /\ \E loaded \in [Keys -> LoadedEntries] : InitReply(loaded)

NextClassify ==
    \/ \E topic \in Topics, gem_ok \in BOOLEAN,
          b \in ClassifyBackend \cup {NoBackend}, io_ok \in BOOLEAN :
             detect_topic_type(topic, gem_ok, b, io_ok)
    \/ Tick

SpecClassify == InitClassify /\ [][NextClassify]_vars

\* ================================================== generate_reply (reply.py)
\* values generate_reply ends with: a returned text or a raised exception
Returned(txt) == <<"str", txt>>
Raised(e) == <<"raise", <<e>>>>

\* sets of prompt types that have an active row in the prompts table
ActiveSets == { {}, {"casual"}, {"tech", "casual", "sad"} }

\* database.get_active_prompts_dict(): the prompt types of the active rows,
\* or {} when the connection fails or a query raises
get_active_prompts_dict(db_ok, active) == IF db_ok THEN active ELSE {}

\* variant: a persona prompt is taken to exist for every topic
PromptFound_always(active_prompts, topic) == TRUE

\* not (not active_prompts or topic not in active_prompts)
PromptFound(active_prompts, topic) ==
    active_prompts # {} /\ topic \in active_prompts

\* texts the generation request can return
GenerateReplies == { <<" ", "Tweet", " ">>, <<" ">> }

\* exceptions of convo.send_message and resp.text taken as inputs: the quota
\* error, a client error, a server error and an error of resp.text
GenerateErrors ==
    {"ResourceExhausted", "InvalidArgument", "InternalServerError", "ValueError"}

\* outcomes of convo.send_message
GenerateBackend ==
    {<<"text", r>> : r \in GenerateReplies} \cup {<<"error", <<e>>>> : e \in GenerateErrors}

\* outcomes of the classification request inside generate_reply
NestedBackend ==
    { <<"text", <<"sad">>>>, <<"text", <<"politics">>>>,
      <<"error", <<"ResourceExhausted">>>> }

\* entries of the cache file when generate_reply is exercised
GenLoaded == {NoEntry, OtherEntry}

\* the except clauses of generate_reply, in order
GenerateChain ==
    << [class |-> "ResourceExhausted", name |-> "google"],
       [class |-> "InvalidArgument", name |-> "google"],
       [class |-> "PermissionDenied", name |-> "google"],
       [class |-> "NotFound", name |-> "google"],
       [class |-> "DeadlineExceeded", name |-> "google"],
       [class |-> "ServiceUnavailable", name |-> "google"],
       [class |-> "InternalServerError", name |-> "google"],
       [class |-> "ConnectionError", name |-> "requests"],
       [class |-> "Timeout", name |-> "requests"],
       [class |-> "JSONDecodeError", name |-> "json"],
       [class |-> "Exception", name |-> "Exception"] >>

\* the quota handler of generate_reply: rate_limiter.record_failure(),
\* time.sleep(min(2 ** failures * 300, 3600)), return ""
GenerateQuotaHandler(failures) ==
    IF {"rate_limiter", "time"} \subseteq ReplyGlobals
    THEN [result |-> Returned(<<>>), failures |-> failures + 1,
          slept |-> Min(pow2(failures + 1) * 300, 3600)]
    ELSE [result |-> Raised("NameError"), failures |-> failures, slept |-> 0]

\* variant: the handlers that return "" give None instead
GenerateTry_none_on_error(g, failures) ==
    IF g[1] = "text"
    THEN [result |-> Returned(strip(g[2])), failures |-> failures, slept |-> 0]
    ELSE LET clause == MatchClause(GenerateChain, g[2][1])
         IN  IF clause = "NameError"
             THEN [result |-> Raised("NameError"), failures |-> failures,
                   slept |-> 0]
             ELSE IF clause = "ResourceExhausted"
             THEN GenerateQuotaHandler(failures)
             ELSE [result |-> <<"null", <<>>>>, failures |-> failures, slept |-> 0]

\* the try block of generate_reply for outcome g of send_message
GenerateTry(g, failures) ==
    IF g[1] = "text"
    THEN [result |-> Returned(strip(g[2])), failures |-> failures, slept |-> 0]
    ELSE LET clause == MatchClause(GenerateChain, g[2][1])
         IN  IF clause = "NameError"
             THEN [result |-> Raised("NameError"), failures |-> failures,
                   slept |-> 0]
             ELSE IF clause = "ResourceExhausted"
             THEN GenerateQuotaHandler(failures)
             ELSE [result |-> Returned(<<>>), failures |-> failures, slept |-> 0]

\* the nested detect_topic_type, which finds the model built
NestedClassify(topic, b, io_ok) ==
    ClassifyOut(topic_cache, cache_file, TRUE, consecutive_failures, now,
                topic, TRUE, b, io_ok)

\* what the nested call returns: its result field, without the cache update
NestedResult(topic, b) ==
    LET look == CacheLookup(topic_cache[Normalize(topic)], now)
    IN  IF look[1] = "hit" THEN look[2]
        ELSE IF DetectTry(b, consecutive_failures).raised THEN "NameError"
        ELSE DetectTry(b, consecutive_failures).category

\* a choice of the environment that generate_reply does not consult is fixed:
\* no classification without a model, no prompt store without a resolved
\* persona, no send_message without a prompt
GenClassifyEnv(topic, gem_ok, b, io_ok) ==
    /\ model => gem_ok
    /\ IF model \/ gem_ok THEN EnvConsulted(topic, TRUE, b, io_ok)
                          ELSE b = NoBackend /\ io_ok

GenStoreEnv(topic, gem_ok, b, db_ok, active) ==
    LET asked == (model \/ gem_ok) /\ NestedResult(topic, b) # "NameError"
    IN  /\ ~asked => (db_ok /\ active = {})
        /\ ~db_ok => active = {}

GenSendEnv(topic, gem_ok, b, db_ok, active, g) ==
    LET found == /\ model \/ gem_ok
                 /\ NestedResult(topic, b) # "NameError"
                 /\ PromptFound(get_active_prompts_dict(db_ok, active),
                                NestedResult(topic, b))
    IN  (g = NoBackend) <=> ~found

\* one call of generate_reply(topic).  gem_ok: initialize_gemini can build
\* the model; b, io_ok: the environment of the nested detect_topic_type;
\* db_ok, active: the prompt store; g: outcome of send_message
generate_reply(topic, gem_ok, b, io_ok, db_ok, active, g) ==
    LET ready == model \/ gem_ok
        d == NestedClassify(topic, b, io_ok)
        active_prompts == get_active_prompts_dict(db_ok, active)
        try == GenerateTry(g, d.failures)
        store == IF db_ok THEN "ok" ELSE "down"
    IN  /\ GenClassifyEnv(topic, gem_ok, b, io_ok)
        /\ GenStoreEnv(topic, gem_ok, b, db_ok, active)
        /\ GenSendEnv(topic, gem_ok, b, db_ok, active, g)
        /\ IF ~ready
           THEN /\ gn' = [NoGen EXCEPT !.result = Returned(<<>>)]
                /\ UNCHANGED <<topic_cache, cache_file, model,
                               consecutive_failures, cl>>
           ELSE /\ model' = TRUE
                /\ topic_cache' = d.cache
                /\ cache_file' = d.file
                /\ cl' = [key |-> d.key, result |-> d.result, calls |-> d.calls,
                          exc |-> d.exc, slept |-> d.slept, io_ok |-> io_ok]
                /\ IF d.result = "NameError"
                   THEN /\ gn' = [NoGen EXCEPT !.result = Raised("NameError")]
                        /\ consecutive_failures' = d.failures
                   ELSE IF ~PromptFound(active_prompts, d.result)
                   THEN /\ gn' = [NoGen EXCEPT !.result = Returned(<<>>),
                                               !.persona = d.result,
                                               !.store = store,
                                               !.prompts = active_prompts]
                        /\ consecutive_failures' = d.failures
                   ELSE /\ gn' = [result |-> try.result, persona |-> d.result,
                                  store |-> store, prompts |-> active_prompts,
                                  sent |-> 1,
                                  exc |-> IF g[1] = "error" THEN g[2][1] ELSE "none",
                                  slept |-> try.slept]
                        /\ consecutive_failures' = try.failures
        /\ UNCHANGED now
        /\ UNCHANGED <<botVars, mainVars, stVars, postVars, extVars>>

InitGenerate ==
    /\ InitBot /\ InitMain /\ InitST /\ InitPost /\ InitExt
    /\ \E loaded \in [Keys -> GenLoaded] : InitReply(loaded)

NextGenerate ==
    \E topic \in Topics, gem_ok \in BOOLEAN :
      \E b \in NestedBackend \cup {NoBackend}, io_ok \in BOOLEAN :
        /\ GenClassifyEnv(topic, gem_ok, b, io_ok)
        /\ \E db_ok \in BOOLEAN, active \in ActiveSets :
             /\ GenStoreEnv(topic, gem_ok, b, db_ok, active)
             /\ \E g \in GenerateBackend \cup {NoBackend} :
                  generate_reply(topic, gem_ok, b, io_ok, db_ok, active, g)

SpecGenerate == InitGenerate /\ [][NextGenerate]_vars

\* ============================== posting paths (app.py, database.save_tweets)
\* bound on the number of publish calls
MaxPublishes == 2

\* variant: the row is written as sent whatever the status
save_tweets_always_sent(ps, call, tweet_type, status, db_ok) ==
    IF db_ok
    THEN Append(ps, [call |-> call, tweet_type |-> tweet_type, sent |-> TRUE])
    ELSE ps

\* database.save_tweets(tweet, tweet_type, status) on table ps for publish
\* call `call`: one row is inserted, or nothing when the connection or the
\* insert fails (db_ok false): both failures are swallowed
save_tweets(ps, call, tweet_type, status, db_ok) ==
    IF db_ok
    THEN Append(ps, [call |-> call, tweet_type |-> tweet_type, sent |-> status])
    ELSE ps

\* status = main.scheduled_tweet(tweet) on path `path`, followed by
\* save_tweets and the broadcasts (raised: a broadcast raises)
PublishAndSave(path, tweet_type, status, db_ok, raised) ==
    /\ Len(publish_log) < MaxPublishes
    /\ publish_log' = Append(publish_log, [path |-> path, result |-> status,
                                           db_ok |-> db_ok, raised |-> raised])
    /\ posts' = save_tweets(posts, Len(publish_log) + 1, tweet_type, status, db_ok)

\* one iteration of run_bot_thread from generate_reply to the wait it ends
\* in: a text is published, saved and announced, then the cycle sleep starts;
\* an empty result goes to the cycle sleep directly; an exception of
\* generate_reply or of a broadcast goes to the 60-second wait of the handler
run_bot_thread_iteration(tweet, status, db_ok, raised) ==
    /\ post_pc = "iter"
    /\ CASE tweet = "text" ->
              /\ PublishAndSave("loop", "tweet", status, db_ok, raised)
              /\ post_status' = Published(Len(publish_log) + 1)
              /\ post_pc' = IF raised THEN "wait_error" ELSE "wait_cycle"
         [] tweet = "empty" ->
              /\ ~status /\ db_ok /\ ~raised
              /\ post_pc' = "wait_cycle"
              /\ UNCHANGED <<posts, publish_log, post_status>>
         [] tweet = "raise" ->
              /\ ~status /\ db_ok /\ ~raised
              /\ post_pc' = "wait_error"
              /\ UNCHANGED <<posts, publish_log, post_status>>
    /\ UNCHANGED <<botVars, mainVars, stVars, replyVars, extVars>>

\* bot_stop_event.wait(timeout) returns False: the next iteration starts
run_bot_thread_wait_over ==
    /\ post_pc \in {"wait_cycle", "wait_error"}
    /\ post_pc' = "iter"
    /\ post_status' = NoPublish
    /\ UNCHANGED <<posts, publish_log>>
    /\ UNCHANGED <<botVars, mainVars, stVars, replyVars, extVars>>

\* POST /api/tweet with a text that passes validation
api_manual_tweet(status, db_ok, raised) ==
    /\ PublishAndSave("manual", "manual", status, db_ok, raised)
    /\ UNCHANGED <<post_pc, post_status>>
    /\ UNCHANGED <<botVars, mainVars, stVars, replyVars, extVars>>

\* POST /api/force_tweet with a trend found and a text generated
api_force_tweet(status, db_ok, raised) ==
    /\ PublishAndSave("forced", "forced", status, db_ok, raised)
    /\ UNCHANGED <<post_pc, post_status>>
    /\ UNCHANGED <<botVars, mainVars, stVars, replyVars, extVars>>

NextPosting ==
    \/ \E tweet \in GenerateOutcomes, status \in BOOLEAN, db_ok \in BOOLEAN,
          raised \in BOOLEAN : run_bot_thread_iteration(tweet, status, db_ok, raised)
    \/ run_bot_thread_wait_over
    \/ \E status \in BOOLEAN, db_ok \in BOOLEAN, raised \in BOOLEAN :
          api_manual_tweet(status, db_ok, raised)
    \/ \E status \in BOOLEAN, db_ok \in BOOLEAN, raised \in BOOLEAN :
          api_force_tweet(status, db_ok, raised)

SpecPosting == Init /\ [][NextPosting]_vars

\* ===================================== cache file round trip (reply.py)
\* json.dump(topic_cache, f): the JSON document written for cache c, as the
\* set of its members; a key without entry has no member.  A bare string is
\* written as a JSON string, a record as an object with the keys it has.
json_dump(c) ==
    { <<k, CASE c[k].kind = "str" -> <<"string", c[k].category, NoStamp>>
             [] c[k].kind = "dict" -> <<"object", c[k].category, c[k].ts>>
             [] OTHER -> <<"value", NoCategory, NoStamp>> >> :
        k \in {j \in Keys : c[j].kind # "absent"} }

\* topic_cache = json.load(f) at import: the cache that document doc denotes
json_load(doc) ==
    [k \in Keys |->
        IF \E m \in doc : m[1] = k
        THEN LET v == (CHOOSE m \in doc : m[1] = k)[2]
             IN  CASE v[1] = "string" -> StrEntry(v[2])
                   [] v[1] = "object" -> DictEntry(v[2], v[3])
                   [] OTHER -> OtherEntry
        ELSE NoEntry]

\* marks in cl of a direct call of save_cache
SaveCall == [NoCall EXCEPT !.key = <<"save_cache()">>]

\* a direct call of save_cache()
save_cache_call(io_ok) ==
    LET saved == save_cache(topic_cache, cache_file, now, io_ok)
    IN  /\ topic_cache' = saved.cache
        /\ cache_file' = saved.file
        /\ cl' = [SaveCall EXCEPT !.io_ok = io_ok]
        /\ UNCHANGED <<model, consecutive_failures, now, gn>>
        /\ UNCHANGED <<botVars, mainVars, stVars, postVars, extVars>>

\* the process restarts and reply.py is imported again: the module globals
\* are rebuilt and the cache is read from the file
reload ==
    /\ topic_cache' = json_load(json_dump(cache_file))
    /\ model' = FALSE
    /\ consecutive_failures' = 0
    /\ cl' = NoCall
    /\ gn' = NoGen
    /\ UNCHANGED <<cache_file, now>>
    /\ UNCHANGED <<botVars, mainVars, stVars, postVars, extVars>>

NextCache ==
    \/ \E io_ok \in BOOLEAN : save_cache_call(io_ok)
    \/ reload
    \/ Tick

SpecCache == InitClassify /\ [][NextCache]_vars

\* ================================================= prepareTrend (trend.py)
\* bounds on the rows of a page and on the limit
MaxRows == 16
MaxLimit == 3

\* get_trending_hashtags(htmlContent, 15)
ScanRows == 15

\* a character of a name is given by its class: ord(char) < 128 ("ascii",
\* and " " for whitespace), a member of turkish_chars, another letter whose
\* Unicode name contains LATIN, and letters of other scripts
AcceptedClasses == {"ascii", " ", "turkish", "latin"}

\* is_english_or_turkish(text)
is_english_or_turkish(text) ==
    \A i \in 1..Len(text) : text[i] \in AcceptedClasses

\* an attribute that the tag does not have
NoAttr == <<"missing", 0>>

\* kinds of table row: link is the text of its <a class="tweet"> (NoAttr
\* when the row has no such link), href and tweetcount say whether the link
\* carries the attribute
RowKinds ==
    { [link |-> <<" ", "ascii", "turkish", " ">>, href |-> TRUE, tweetcount |-> TRUE],
      [link |-> <<"ascii", "latin">>, href |-> TRUE, tweetcount |-> FALSE],
      [link |-> <<"ascii", "cyrillic">>, href |-> TRUE, tweetcount |-> TRUE],
      [link |-> <<"arabic">>, href |-> FALSE, tweetcount |-> TRUE],
      [link |-> <<"ascii">>, href |-> FALSE, tweetcount |-> TRUE],
      [link |-> NoAttr, href |-> FALSE, tweetcount |-> FALSE] }

\* pages: n rows that repeat a pattern of one or two kinds; the href and the
\* tweetcount of the row at position i are <<"url", i>> and <<"count", i>>
Patterns == {<<a>> : a \in RowKinds} \cup {<<a, b>> : a, b \in RowKinds}
Page(pattern, n) ==
    [i \in 1..n |->
        LET kind == pattern[((i - 1) % Len(pattern)) + 1]
        IN  [link |-> kind.link,
             href |-> IF kind.href THEN <<"url", i>> ELSE NoAttr,
             tweetcount |-> IF kind.tweetcount THEN <<"count", i>> ELSE NoAttr]]

\* responses of requests.get: a status code (0: the request raised) and,
\* with status 200, response.text: the rows of the page, or the empty string
Responses ==
    { [status |-> 200, text |-> "html", rows |-> Page(p, n)] :
          p \in Patterns, n \in 0..MaxRows }
    \cup { [status |-> 200, text |-> "", rows |-> <<>>],
           [status |-> 404, text |-> "html", rows |-> <<>>],
           [status |-> 0, text |-> "", rows |-> <<>>] }

\* fetch_trend(): response.text, or None
fetch_trend(r) == IF r.status = 200 THEN r.text ELSE "None"

Null == <<"null", <<>>>>
Lines(ls) == <<"lines", ls>>
KeyError == <<"KeyError", <<>>>>

\* rows[:limit]
Slice(seq, limit) ==
    IF limit >= 0 THEN SubSeq(seq, 1, IF limit < Len(seq) THEN limit ELSE Len(seq))
    ELSE SubSeq(seq, 1, IF Len(seq) + limit > 0 THEN Len(seq) + limit ELSE 0)

\* get_trending_hashtags(html_content, limit): the rows with a tweet link
\* among rows[:limit], each as name (stripped text), url, tweet_count with
\* 'N/A' for a missing tweetcount
RECURSIVE Trends(_)
Trends(rows) ==
    IF rows = <<>> THEN <<>>
    ELSE IF Head(rows).link = NoAttr THEN Trends(Tail(rows))
    ELSE << [name |-> strip(Head(rows).link),
             url |-> Head(rows).href,
             tweet_count |-> IF Head(rows).tweetcount = NoAttr
                             THEN <<"N/A", 0>> ELSE Head(rows).tweetcount] >>
         \o Trends(Tail(rows))

get_trending_hashtags(rows, limit) == Trends(Slice(rows, limit))

\* trend_link['href'] raises KeyError for a link without href
HrefRaises(rows, limit) ==
    \E i \in 1..Len(Slice(rows, limit)) :
        rows[i].link # NoAttr /\ rows[i].href = NoAttr

\* [trend for trend in allTrends if is_english_or_turkish(trend['name'])]
RECURSIVE Filter(_)
Filter(trends) ==
    IF trends = <<>> THEN <<>>
    ELSE IF is_english_or_turkish(Head(trends).name)
         THEN <<Head(trends)>> \o Filter(Tail(trends))
         ELSE Filter(Tail(trends))

\* get_EnglishTrend(htmlContent, limit)
get_EnglishTrend(rows, limit) ==
    Slice(Filter(get_trending_hashtags(rows, ScanRows)), limit)

\* the formatted lines of prepareTrend: f"{idx}. {name} ({tweet_count}
\* Tweets) URL: {url}" for idx counting from 1
Format(trends_list) ==
    [idx \in 1..Len(trends_list) |->
        <<idx, ".", trends_list[idx].name, "(", trends_list[idx].tweet_count,
          "Tweets)", "URL:", trends_list[idx].url>>]

\* prepareTrend(limit) for response r
prepareTrendOut(r, limit) ==
    IF fetch_trend(r) \in {"None", ""} THEN Null
    ELSE IF HrefRaises(r.rows, ScanRows) THEN KeyError
    ELSE Lines(Format(get_EnglishTrend(r.rows, limit)))

\* one call of prepareTrend
prepareTrend ==
    /\ tr_out = NoLines
    /\ tr_out' = prepareTrendOut([status |-> tr_in.status, text |-> tr_in.text,
                                  rows |-> tr_in.rows], tr_in.limit)
    /\ UNCHANGED <<tr_in, saveVars, lockVars, bulk>>
    /\ UNCHANGED <<botVars, mainVars, stVars, replyVars, postVars>>

InitTrend ==
    /\ InitBot /\ InitMain /\ InitST /\ InitReply(EmptyCache) /\ InitPost
    /\ InitSave /\ InitLocks /\ InitBulk
    /\ \E r \in Responses, limit \in 0..MaxLimit :
          tr_in = [status |-> r.status, text |-> r.text, rows |-> r.rows,
                   limit |-> limit]
    /\ tr_out = NoLines

NextTrend == prepareTrend

SpecTrend == InitTrend /\ [][NextTrend]_vars

\* ============================= retry flows (app.py: api_retry_tweet, api_bulk_retry)
\* bound on the number of publish calls made by retries
MaxRetries == 2

RetryPaths == {"retry", "bulk"}

\* the publish calls that retries have made
RetryCalls == {i \in 1..Len(publish_log) : publish_log[i].path \in RetryPaths}

\* status = main.scheduled_tweet(tweet_text) for the text of row `row`,
\* then UPDATE ... SET sent = 1 WHERE id = row when status is true
RetryPublish(path, row, status) ==
    /\ Cardinality(RetryCalls) < MaxRetries
    /\ publish_log' = Append(publish_log,
                             [path |-> path, result |-> status, row |-> row])
    /\ posts' = IF status THEN [posts EXCEPT ![row].sent = TRUE] ELSE posts

\* POST /api/retry_tweet/<tweet_id>: SELECT ... WHERE id = ? AND sent = 0;
\* without such a row the request answers "not found or already sent"
api_retry_tweet(tweet_id, status) ==
    /\ tweet_id \in 1..Len(posts)
    /\ ~posts[tweet_id].sent
    /\ RetryPublish("retry", tweet_id, status)
    /\ UNCHANGED <<post_pc, post_status>>
    /\ UNCHANGED <<botVars, mainVars, stVars, replyVars>>
    /\ UNCHANGED <<trendVars, saveVars, lockVars, bulk>>

\* SELECT id, tweet_text ... WHERE sent = 0, in table order
RECURSIVE FailedRows(_, _)
FailedRows(ps, from) ==
    IF from > Len(ps) THEN <<>>
    ELSE IF ps[from].sent THEN FailedRows(ps, from + 1)
    ELSE <<from>> \o FailedRows(ps, from + 1)

\* POST /api/bulk_retry up to its loop: the failed rows are read once; with
\* none the request answers at once
api_bulk_retry_select ==
    /\ bulk.pc = "idle"
    /\ FailedRows(posts, 1) # <<>>
    /\ bulk' = [pc |-> "loop", todo |-> FailedRows(posts, 1)]
    /\ UNCHANGED postVars
    /\ UNCHANGED <<botVars, mainVars, stVars, replyVars>>
    /\ UNCHANGED <<trendVars, saveVars, lockVars>>

\* one pass of the loop of api_bulk_retry: publish the text of the next row
\* read, mark the row on success, sleep 2 seconds; after the last row commit
\* and answer
api_bulk_retry_item(status) ==
    /\ bulk.pc = "loop"
    /\ RetryPublish("bulk", Head(bulk.todo), status)
    /\ bulk' = IF Tail(bulk.todo) = <<>> THEN NoBulk
               ELSE [pc |-> "loop", todo |-> Tail(bulk.todo)]
    /\ UNCHANGED <<post_pc, post_status>>
    /\ UNCHANGED <<botVars, mainVars, stVars, replyVars>>
    /\ UNCHANGED <<trendVars, saveVars, lockVars>>

NextRetry ==
    \/ NextPosting
    \/ \E tweet_id \in 1..MaxPublishes, status \in BOOLEAN :
          api_retry_tweet(tweet_id, status)
    \/ api_bulk_retry_select
    \/ \E status \in BOOLEAN : api_bulk_retry_item(status)

SpecRetry == Init /\ [][NextRetry]_vars

\* ================== concurrent classification (reply.py: cache update and save)
\* the uncached topic each thread classifies
KeyOf(w) == IF w = "loop" THEN <<"ai">> ELSE <<"sad", "news">>

\* topic_cache[normalized] = {'category': category, 'timestamp': now} at the
\* end of detect_topic_type, for the category the thread obtained
dt_insert(w, category) ==
    /\ sv_pc[w] = "idle"
    /\ topic_cache' = [topic_cache EXCEPT ![KeyOf(w)] = DictEntry(category, Iso(now))]
    /\ sv_pc' = [sv_pc EXCEPT ![w] = "iterate"]
    /\ UNCHANGED <<cache_file, model, consecutive_failures, now, cl, gn, cleaned_cache>>
    /\ UNCHANGED <<botVars, mainVars, stVars, postVars, trendVars, lockVars, bulk>>

\* save_cache(): the loop over topic_cache.items() that fills the local
\* cleaned_cache, taken as one step
sc_iterate(w) ==
    /\ sv_pc[w] = "iterate"
    /\ cleaned_cache' = [cleaned_cache EXCEPT
                            ![w] = [k \in Keys |-> CleanEntry(topic_cache[k], now)]]
    /\ sv_pc' = [sv_pc EXCEPT ![w] = "clear"]
    /\ UNCHANGED replyVars
    /\ UNCHANGED <<botVars, mainVars, stVars, postVars, trendVars, lockVars, bulk>>

\* topic_cache.clear()
sc_clear(w) ==
    /\ sv_pc[w] = "clear"
    /\ topic_cache' = EmptyCache
    /\ sv_pc' = [sv_pc EXCEPT ![w] = "update"]
    /\ UNCHANGED <<cache_file, model, consecutive_failures, now, cl, gn, cleaned_cache>>
    /\ UNCHANGED <<botVars, mainVars, stVars, postVars, trendVars, lockVars, bulk>>

\* topic_cache.update(cleaned_cache)
sc_update(w) ==
    /\ sv_pc[w] = "update"
    /\ topic_cache' = [k \in Keys |-> IF cleaned_cache[w][k] # NoEntry
                                      THEN cleaned_cache[w][k] ELSE topic_cache[k]]
    /\ sv_pc' = [sv_pc EXCEPT ![w] = "write"]
    /\ UNCHANGED <<cache_file, model, consecutive_failures, now, cl, gn, cleaned_cache>>
    /\ UNCHANGED <<botVars, mainVars, stVars, postVars, trendVars, lockVars, bulk>>

\* json.dump(topic_cache, f) into the reopened file; save_cache and
\* detect_topic_type return
sc_write(w) ==
    /\ sv_pc[w] = "write"
    /\ cache_file' = topic_cache
    /\ sv_pc' = [sv_pc EXCEPT ![w] = "done"]
    /\ UNCHANGED <<topic_cache, model, consecutive_failures, now, cl, gn, cleaned_cache>>
    /\ UNCHANGED <<botVars, mainVars, stVars, postVars, trendVars, lockVars, bulk>>

NextSave ==
    \E w \in Classifiers :
        \/ \E category \in Categories : dt_insert(w, category)
        \/ sc_iterate(w)
        \/ sc_clear(w)
        \/ sc_update(w)
        \/ sc_write(w)

SpecSave == Init /\ [][NextSave]_vars

\* ================================ the branch on generate's result (app.py)
\* what reply.generate_reply hands to the loop: a stripped text, the empty
\* string, or an exception; it has no `return None`
LoopResults == {Returned(<<"Tweet">>), Returned(<<>>), Raised("NameError")}

\* tweet = main.reply.generate_reply(prompt)
run_bot_thread_tweet(r) ==
    /\ post_pc = "iter"
    /\ gn' = [NoGen EXCEPT !.result = r]
    /\ post_pc' = "branch"
    /\ UNCHANGED <<topic_cache, cache_file, model, consecutive_failures, now, cl>>
    /\ UNCHANGED <<posts, publish_log, post_status>>
    /\ UNCHANGED <<botVars, mainVars, stVars, extVars>>

\* variant: `if tweet is None ... else` with no test of the text, so the
\* empty string is published
run_bot_thread_branch_no_elif(status, db_ok, raised) ==
    /\ post_pc = "branch"
    /\ CASE gn.result[1] = "raise" ->
              /\ ~status /\ db_ok /\ ~raised
              /\ post_pc' = "wait_error"
              /\ UNCHANGED <<posts, publish_log, post_status>>
         [] gn.result = Null ->
              /\ ~status /\ db_ok
              /\ post_pc' = IF raised THEN "wait_error" ELSE "wait_declined"
              /\ UNCHANGED <<posts, publish_log, post_status>>
         [] OTHER ->
              /\ PublishAndSave("loop", "tweet", status, db_ok, raised)
              /\ post_status' = Published(Len(publish_log) + 1)
              /\ post_pc' = IF raised THEN "wait_error" ELSE "wait_cycle"
    /\ UNCHANGED <<botVars, mainVars, stVars, replyVars, extVars>>

\* if tweet is None: log, 10-second wait, continue; elif tweet: publish,
\* save, announce; else: log the failure; then the cycle sleep.  An
\* exception (of generate_reply, or of a broadcast: raised) goes to the
\* 60-second wait of the cycle handler.
run_bot_thread_branch(status, db_ok, raised) ==
    /\ post_pc = "branch"
    /\ CASE gn.result[1] = "raise" ->
              /\ ~status /\ db_ok /\ ~raised
              /\ post_pc' = "wait_error"
              /\ UNCHANGED <<posts, publish_log, post_status>>
         [] gn.result = Null ->
              /\ ~status /\ db_ok
              /\ post_pc' = IF raised THEN "wait_error" ELSE "wait_declined"
              /\ UNCHANGED <<posts, publish_log, post_status>>
         [] gn.result[1] = "str" /\ gn.result[2] # <<>> ->
              /\ PublishAndSave("loop", "tweet", status, db_ok, raised)
              /\ post_status' = Published(Len(publish_log) + 1)
              /\ post_pc' = IF raised THEN "wait_error" ELSE "wait_cycle"
         [] OTHER ->
              /\ ~status /\ db_ok
              /\ post_pc' = IF raised THEN "wait_error" ELSE "wait_cycle"
              /\ UNCHANGED <<posts, publish_log, post_status>>
    /\ UNCHANGED <<botVars, mainVars, stVars, replyVars, extVars>>

NextLoop ==
    \/ \E r \in LoopResults : run_bot_thread_tweet(r)
    \/ \E status \in BOOLEAN, db_ok \in BOOLEAN, raised \in BOOLEAN :
          run_bot_thread_branch(status, db_ok, raised)
    \/ run_bot_thread_wait_over

SpecLoop == Init /\ [][NextLoop]_vars

\* ======================= stop against the loop's exit path (app.py, fairness)
\* scheduling: a request handler that holds bot_lock runs on to its return
\* (the join is bounded by its timeout); a thread blocked in `with bot_lock`
\* gets the lock when it is released again and again; the exit path runs on
ControlFairness ==
    /\ WF_vars(api_control_stop)
    /\ WF_vars(api_control_stop_join)

ExitFairness ==
    \A t \in Threads :
        /\ SF_vars(run_bot_thread_acquire(t))
        /\ WF_vars(run_bot_thread_initfail(t))
        /\ WF_vars(run_bot_thread_finally(t))
        /\ WF_vars(run_bot_thread_exit(t))

\* the state a successful start leaves: one loop thread spawned, flag set
InitStop ==
    /\ bot_thread = Handle(1)
    /\ bot_running = TRUE
    /\ bot_stop_event = FALSE
    /\ bot_lock = Free
    /\ bot_start_time = TimeOf(1)
    /\ notified = {}
    /\ pc = [t \in Threads |-> IF t = 1 THEN "start" ELSE "dead"]
    /\ ctl_pc = "idle"
    /\ resp = "start_ok"
    /\ stop_mid = {}
    /\ stop_wait = {}
    /\ InitMain /\ InitST /\ InitReply(EmptyCache) /\ InitPost /\ InitExt

\* stop and emergency-stop requests against the loop that was started
NextStop ==
    \/ api_control_acquire("stop")
    \/ api_control_stop
    \/ api_control_stop_join
    \/ api_emergency_stop
    \/ \E t \in Threads : run_bot_thread_start(t)
    \/ \E t \in Threads : run_bot_thread_acquire(t)
    \/ \E t \in Threads : run_bot_thread_initfail(t)
    \/ \E t \in Threads : run_bot_thread_check(t)
    \/ \E t \in Threads : run_bot_thread_iter(t)
    \/ \E t \in Threads : run_bot_thread_generate(t)
    \/ \E t \in Threads : run_bot_thread_publish(t)
    \/ \E t \in Threads : run_bot_thread_cycle_error(t)
    \/ \E t \in Threads : run_bot_thread_thread_error(t)
    \/ \E t \in Threads : run_bot_thread_wait(t)
    \/ \E t \in Threads : run_bot_thread_finally(t)
    \/ \E t \in Threads : run_bot_thread_exit(t)

SpecStop == InitStop /\ [][NextStop]_vars /\ ControlFairness /\ ExitFairness

\* ========================= initialisation locks (main.py), one step per wait
\* the threads that call initialize_twitter_client through scheduled_tweet:
\* the loop thread and a request handler
InitCallers == Initializers \ {"reset"}

\* frame of the steps of this section
LockFrame ==
    /\ UNCHANGED <<botVars, stVars, replyVars, postVars, trendVars, saveVars, bulk>>

\* initialize_twitter_client(): the quick check of _client_initialized
\* without the lock
itc_quick_check(w) ==
    /\ ipc[w] = "idle"
    /\ ipc' = [ipc EXCEPT ![w] = IF client_initialized THEN "idle"
                                                            ELSE "want_client"]
    /\ UNCHANGED <<init_lock, client_lock, mainVars>>
    /\ LockFrame

\* with _client_lock: entered
itc_acquire_client(w) ==
    /\ ipc[w] = "want_client"
    /\ client_lock = Unlocked
    /\ client_lock' = w
    /\ ipc' = [ipc EXCEPT ![w] = "client_locked"]
    /\ UNCHANGED <<init_lock, mainVars>>
    /\ LockFrame

\* under _client_lock: the second check, then initialize_bot_modules() up to
\* its own quick check of _modules_initialized
itc_recheck(w) ==
    /\ ipc[w] = "client_locked"
    /\ IF client_initialized
       THEN /\ client_lock' = Unlocked
            /\ ipc' = [ipc EXCEPT ![w] = "idle"]
       ELSE /\ ipc' = [ipc EXCEPT ![w] = IF modules_initialized
                                              THEN "get_client" ELSE "want_init"]
            /\ UNCHANGED client_lock
    /\ UNCHANGED <<init_lock, mainVars>>
    /\ LockFrame

\* initialize_bot_modules(): with _init_lock: entered (with _client_lock
\* held when the caller is initialize_twitter_client)
ibm_acquire_init(w) ==
    /\ ipc[w] = "want_init"
    /\ init_lock = Unlocked
    /\ init_lock' = w
    /\ ipc' = [ipc EXCEPT ![w] = "init_locked"]
    /\ UNCHANGED <<client_lock, mainVars>>
    /\ LockFrame

\* initialize_bot_modules() called on its own (run_bot_thread does so before
\* its loop): the quick check of _modules_initialized without the lock
ibm_quick_check(w) ==
    /\ ipc[w] = "idle"
    /\ ipc' = [ipc EXCEPT ![w] = IF modules_initialized THEN "idle"
                                                         ELSE "want_init"]
    /\ UNCHANGED <<init_lock, client_lock, mainVars>>
    /\ LockFrame

\* initialize_bot_modules() under _init_lock: the second check and the
\* imports (ok), then back in the caller: initialize_twitter_client goes on
\* to get_client, or returns False on failure and releases _client_lock
ibm_import(w, ok) ==
    /\ ipc[w] = "init_locked"
    /\ modules_initialized' = initialize_bot_modules(ok)
    /\ init_lock' = Unlocked
    /\ IF client_lock = w /\ initialize_bot_modules(ok)
       THEN /\ ipc' = [ipc EXCEPT ![w] = "get_client"]
            /\ UNCHANGED client_lock
       ELSE /\ ipc' = [ipc EXCEPT ![w] = "idle"]
            /\ client_lock' = IF client_lock = w THEN Unlocked ELSE client_lock
    /\ UNCHANGED <<client_initialized, client>>
    /\ LockFrame

\* client = twitter_client.get_client(); the flag is set for a client, not
\* for None or an exception; _client_lock is released
itc_get_client(w, got) ==
    /\ ipc[w] = "get_client"
    /\ CASE got = "client" -> client' = "client" /\ client_initialized' = TRUE
         [] got = "None" -> client' = "None" /\ UNCHANGED client_initialized
         [] OTHER -> UNCHANGED <<client_initialized, client>>
    /\ client_lock' = Unlocked
    /\ ipc' = [ipc EXCEPT ![w] = "idle"]
    /\ UNCHANGED <<init_lock, modules_initialized>>
    /\ LockFrame

\* reset_initialization(): with _init_lock: entered
reset_acquire_init ==
    /\ ipc["reset"] = "idle"
    /\ init_lock = Unlocked
    /\ init_lock' = "reset"
    /\ ipc' = [ipc EXCEPT !["reset"] = "want_client"]
    /\ UNCHANGED <<client_lock, mainVars>>
    /\ LockFrame

\* reset_initialization(): with _client_lock: entered, _init_lock held
reset_acquire_client ==
    /\ ipc["reset"] = "want_client"
    /\ client_lock = Unlocked
    /\ client_lock' = "reset"
    /\ ipc' = [ipc EXCEPT !["reset"] = "both_locked"]
    /\ UNCHANGED <<init_lock, mainVars>>
    /\ LockFrame

\* reset_initialization() under both locks: the three assignments, then both
\* locks are released
reset_initialization ==
    /\ ipc["reset"] = "both_locked"
    /\ modules_initialized' = FALSE
    /\ client_initialized' = FALSE
    /\ client' = "None"
    /\ init_lock' = Unlocked
    /\ client_lock' = Unlocked
    /\ ipc' = [ipc EXCEPT !["reset"] = "idle"]
    /\ LockFrame

NextInit ==
    \/ \E w \in InitCallers :
          \/ itc_quick_check(w)
          \/ itc_acquire_client(w)
          \/ itc_recheck(w)
          \/ ibm_quick_check(w)
          \/ ibm_acquire_init(w)
          \/ \E ok \in BOOLEAN : ibm_import(w, ok)
          \/ \E got \in {"client", "None", "raise"} : itc_get_client(w, got)
    \/ reset_acquire_init
    \/ reset_acquire_client
    \/ reset_initialization

SpecInit == Init /\ [][NextInit]_vars

\* ==================================================================== claims
ExitStates == {"finally", "finally_locked", "tail"}
IterationStates == {"iter", "generate", "publish"}

\* C1: at most one run-loop thread is alive at any time.
C1_AtMostOneLoopThread == Cardinality(AliveThreads) <= 1

\* C2: a start request that finds the running flag true under the lock reports
\* failure, spawns no thread and leaves the running flag, the stop signal, the
\* thread handle and the recorded start time unchanged.
C2_StartWhileRunning ==
    [][(ctl_pc = "start" /\ bot_running /\ ctl_pc' # "start")
         => /\ resp' = "start_fail"
            /\ UNCHANGED <<bot_running, bot_stop_event, bot_thread,
                           bot_start_time, pc, notified>>]_vars

C2_Witness == resp = "start_fail" /\ bot_running /\ handle_alive

\* C3: a stop request that finds the running flag false under the lock is a
\* no-op: the stop signal is neither set nor cleared, the thread handle is not
\* joined or altered, the running flag and the start time stay as they are.
C3_StopWhileStopped ==
    [][(ctl_pc = "stop" /\ ~bot_running /\ ctl_pc' # "stop")
         => /\ resp' = "stop_fail"
            /\ ctl_pc' = "idle"
            /\ UNCHANGED <<bot_running, bot_stop_event, notified, bot_thread,
                           bot_start_time, pc>>]_vars

C3_Witness == resp = "stop_fail" /\ ~bot_running /\ handle_alive

\* C4: a loop thread that was blocked in one of its interruptible waits when
\* stop raised the stop signal leaves the wait and exits: from then on it is in
\* that wait or on its exit path, never again in a trend fetch, generate or
\* publish step.
C4_StopDuringWaitExits ==
    \A t \in stop_wait : pc[t] \in WaitStates \cup ExitStates

C4_Witness ==
    \E t \in stop_wait : pc[t] = "tail" /\ ~bot_stop_event /\ resp = "stop_ok"

\* C5: a loop thread that was inside a generate or publish call when stop
\* raised the stop signal never starts a further iteration.
C5_StopMidCallNoNewIteration == \A t \in stop_mid : pc[t] # "iter"

\* C6: whenever a loop thread terminates, its last state change sets the
\* running flag to false while it holds the bot lock: the thread enters the
\* tail of its finally block only by that write, and nothing but its position
\* changes between that write and its end.
C6_ExitResetsRunning ==
    [][\A t \in Threads :
          /\ (pc[t] # "tail" /\ pc'[t] = "tail")
                => (bot_lock = ThreadOwner(t) /\ bot_running' = FALSE)
          /\ (pc[t] # "dead" /\ pc'[t] = "dead")
                => (pc[t] = "tail" /\ UNCHANGED <<bot_thread, bot_running,
                        bot_stop_event, bot_lock, bot_start_time>>)]_vars

C6_Witness ==
    \E t \in Threads : pc[t] = "tail" /\ ~bot_running /\ bot_lock = Free

\* C7: every change of the running flag, the stop signal or the thread handle
\* is made by a step taken while the bot lock is held.
C7_WritesUnderLock ==
    [][(bot_running' # bot_running \/ bot_stop_event' # bot_stop_event
            \/ bot_thread' # bot_thread) => bot_lock # Free]_vars

RateLimitTexts ==
    { <<"429", "Too", "Many", "Requests">>,
      <<"Rate", "limit", "exceeded">>,
      <<"too", "many", "requests">> }

\* C9: one publish call makes at most 3 post calls; every post call but the
\* last ended in a rate-limit error; after a post call that ended in another
\* error the call makes no further post call and returns false.
C9_PublishRetryBound ==
    /\ Len(create_calls) <= 3
    /\ \A i \in 1..(Len(create_calls) - 1) : create_calls[i] \in RateLimitTexts
    /\ (Len(create_calls) > 0
          /\ create_calls[Len(create_calls)] \notin RateLimitTexts \cup {<<"ok">>})
       => (st_pc \in {"returned", "idle"} /\ st_result = "False")

C9_Witness ==
    /\ Len(create_calls) = 3
    /\ create_calls[3] \in RateLimitTexts
    /\ st_result = "False"

\* C10: publish returns true exactly when one of its post calls succeeded; a
\* successful post call is the last one of the call; and a call that could
\* not initialise the client returns false without any post call.
C10_PublishResult ==
    /\ st_result # "none"
          => (st_result = "True"
                <=> \E i \in 1..Len(create_calls) : create_calls[i] = <<"ok">>)
    /\ \A i \in 1..Len(create_calls) :
          create_calls[i] = <<"ok">>
             => (i = Len(create_calls) /\ st_pc \in {"returned", "idle"})
    /\ st_pc = "return_false" => create_calls = <<>>
    /\ (st_result # "none" /\ ~client_initialized)
          => (st_result = "False" /\ create_calls = <<>>)

C10_Witness ==
    /\ st_result = "True"
    /\ Len(create_calls) = 3
    /\ create_calls[3] = <<"ok">>

\* C11: after the k-th rate-limited attempt (k = 1, 2, 3) the call waits 2^k
\* minutes: once the call has handled its post calls, it has slept once per
\* rate-limited attempt, 120, 240 and 480 seconds in that order.
C11_BackoffWaits ==
    LET limited == {i \in 1..Len(create_calls) : create_calls[i] \in RateLimitTexts}
    IN  /\ Len(st_waits) = Cardinality(limited)
        /\ \A k \in 1..Len(st_waits) : st_waits[k] = <<120, 240, 480>>[k]

\* a step of detect_topic_type for key k: the call recorded in cl' ran in
\* the unprimed state (the clock does not move during a call)
ClassifyStep(k) == now' = now /\ cl'.key = k

\* a cache entry written by detect_topic_type or save_cache: a record with a
\* category and a parsable timestamp
StoredEntry(e) == e.kind = "dict" /\ e.category # NoCategory /\ e.ts[1] = "iso"

\* C12: whatever the topic, the loaded cache and the backend outcome, a call
\* of classify returns one of tech, casual, sad (it does not return another
\* value and does not raise).
C12_ReturnsCategory == cl.result \in Categories \cup {NoCall.result}

\* C13 (as stated): a call for a key whose stored entry has an age of at most
\* 7 days returns the stored category and makes no backend call.
C13_HitWithinSevenDays ==
    [][\A k \in Keys :
         (ClassifyStep(k) /\ StoredEntry(topic_cache[k])
                          /\ now - topic_cache[k].ts[2] <= ExpiryDays)
         => (cl'.result = topic_cache[k].category /\ cl'.calls = 0)]_vars

\* C13 (amended): a call for a key whose stored entry has an age of less than
\* 7 days returns the stored category and makes no backend call.
C13_HitBeforeSevenDays ==
    [][\A k \in Keys :
         (ClassifyStep(k) /\ StoredEntry(topic_cache[k])
                          /\ now - topic_cache[k].ts[2] < ExpiryDays)
         => (cl'.result = topic_cache[k].category /\ cl'.calls = 0)]_vars

\* a second call on a key found the entry that a call of this run stored at
\* an earlier time
C13_Witness ==
    /\ cl.key \in Keys
    /\ cl.calls = 0
    /\ StoredEntry(topic_cache[cl.key])
    /\ topic_cache[cl.key].ts[2] >= 0
    /\ topic_cache[cl.key].ts[2] < now
    /\ cl.result = topic_cache[cl.key].category

\* C14: with the backend initialised, a call for a key whose entry is older
\* than 7 days invokes the backend, and afterwards the entry of the key holds
\* the category the call returned and the current time.
C14_ExpiredReclassified ==
    [][\A k \in Keys :
         (ClassifyStep(k) /\ model /\ StoredEntry(topic_cache[k])
                          /\ now - topic_cache[k].ts[2] > ExpiryDays)
         => /\ cl'.calls = 1
            /\ cl'.result \in Categories
            /\ topic_cache'[k] = DictEntry(cl'.result, Iso(now))]_vars

\* C15 (as stated): every call that returns, hit or miss, leaves the entry
\* of its key with the current time and the cache file equal to the cache.
C15_EveryCallRefreshes ==
    [][\A k \in Keys :
         (ClassifyStep(k) /\ cl'.result # "NameError")
         => /\ topic_cache'[k].ts = Iso(now)
            /\ cache_file' = topic_cache']_vars

\* save_cache() completes on the cache of a call for key k: the timestamps
\* of the other entries parse and the file can be written
SaveCompletes(c, k, io_ok) ==
    /\ io_ok
    /\ \A j \in Keys \ {k} : ~(c[j].kind = "dict" /\ c[j].ts = BadTime)

\* C15 (amended): a call that does not reach the backend (a cache hit, or
\* the backend cannot be initialised) stores no entry and does not write the
\* file; a call that returns after its backend call stores the category it
\* returns with the current time, and the file is rewritten with the whole
\* cache whenever save_cache completes.
C15_MissStoresHitDoesNot ==
    [][\A k \in Keys :
         ClassifyStep(k) =>
            /\ cl'.calls = 0 =>
                  /\ cache_file' = cache_file
                  /\ topic_cache'[k] \in {topic_cache[k], NoEntry}
                  /\ \A j \in Keys \ {k} : topic_cache'[j] = topic_cache[j]
            /\ (cl'.calls = 1 /\ cl'.result # "NameError") =>
                  /\ topic_cache'[k] = DictEntry(cl'.result, Iso(now))
                  /\ SaveCompletes(topic_cache, k, cl'.io_ok)
                        => cache_file' = topic_cache']_vars

\* a call got its category from the backend at a later time than the load,
\* stored it and rewrote the file
C15_Witness ==
    /\ cl.key \in Keys
    /\ cl.calls = 1
    /\ cl.result \in Categories
    /\ now > 0
    /\ topic_cache[cl.key] = DictEntry(cl.result, Iso(now))
    /\ cache_file = topic_cache

\* C16: a call whose backend call fails with quota exhaustion adds one to
\* the failure counter, sleeps min(2^failures, 30) minutes and returns casual.
C16_QuotaBackoff ==
    [][(now' = now /\ cl'.exc = "ResourceExhausted")
       => /\ consecutive_failures' = consecutive_failures + 1
          /\ cl'.slept = Min(pow2(consecutive_failures') * 60, 30 * 60)
          /\ cl'.result = "casual"]_vars

\* C17: a call whose backend call fails with any error other than quota
\* exhaustion returns casual and leaves the failure counter unchanged.
C17_OtherErrorsCasual ==
    [][(now' = now /\ cl'.exc \notin {"none", "ResourceExhausted"})
       => /\ cl'.result = "casual"
          /\ consecutive_failures' = consecutive_failures]_vars

\* C18: whenever the prompt store holds no active template for the persona
\* that classify resolved, the store being unreachable included, generate
\* returns the empty string and sends no generation request.
C18_NoTemplateNoRequest ==
    (gn.persona # NoGen.persona /\ gn.persona \notin gn.prompts)
    => (gn.result = Returned(<<>>) /\ gn.sent = 0)

\* classify resolved a persona and the prompt store could not be reached
C18_Witness ==
    /\ gn.persona \in Categories
    /\ gn.store = "down"
    /\ gn.result = Returned(<<>>)
    /\ gn.sent = 0

\* C19: a call whose generation request fails with quota exhaustion adds one
\* to the failure counter, sleeps min(2^failures * 5, 60) minutes and returns
\* the empty string; with any other error of the request it returns the
\* empty string.
C19_GenerateErrors ==
    [][/\ gn'.exc = "ResourceExhausted"
          => /\ consecutive_failures' = consecutive_failures + 1
             /\ gn'.slept = Min(pow2(consecutive_failures') * 5 * 60, 60 * 60)
             /\ gn'.result = Returned(<<>>)
       /\ gn'.exc \notin {"none", "ResourceExhausted"}
          => gn'.result = Returned(<<>>)]_vars

\* the rows of the tweets table written for the i-th publish call
RecordsOf(i) == {j \in 1..Len(posts) : posts[j].call = i}

CategoryOf(e) == e.category

\* entry e holds a category and has not reached the age of ExpiryDays
LiveEntry(e, t) ==
    /\ e.kind \in {"str", "dict"}
    /\ e.category # NoCategory
    /\ e.ts[1] = "iso" => t - e.ts[2] < ExpiryDays

\* C21: after a save of the topic cache, reloading the file gives every key
\* whose entry held a category and was not expired the category it had before
\* the save, as a record with a timestamp; bare strings and records without
\* timestamp included.
C21_SaveReloadKeepsCategory ==
    [][(now' = now /\ cl'.key = SaveCall.key)
       => \A k \in Keys :
            LiveEntry(topic_cache[k], now)
            => LET e == json_load(json_dump(cache_file'))[k]
               IN  /\ e.kind = "dict"
                   /\ e.ts[1] = "iso"
                   /\ CategoryOf(e) = CategoryOf(topic_cache[k])]_vars

\* positions of the rows of a page, among its first ScanRows rows, that hold
\* a tweet link whose stripped name passes the script filter
AcceptedRows(rows) ==
    {i \in 1..Len(rows) : /\ i <= ScanRows
                          /\ rows[i].link # NoAttr
                          /\ is_english_or_turkish(strip(rows[i].link))}

\* C22: for a page fetched with status 200 the call returns lines, at most
\* `limit` of them: line k is numbered k and carries the name, count and url
\* of the k-th accepted row of the first 15 rows, in page order, and there
\* are min(limit, accepted rows) lines (3 for 10 accepted rows and limit 3);
\* for another status or a failed request it returns null.
C22_LimitedNumberedLines ==
    tr_out # NoLines =>
       IF tr_in.status = 200
       THEN /\ tr_out[1] = "lines"
            /\ Len(tr_out[2]) = Min(tr_in.limit, Cardinality(AcceptedRows(tr_in.rows)))
            /\ \A k \in 1..Len(tr_out[2]) :
                  \E i \in AcceptedRows(tr_in.rows) :
                     /\ Cardinality({j \in AcceptedRows(tr_in.rows) : j < i}) = k - 1
                     /\ tr_out[2][k][1] = k
                     /\ tr_out[2][k][3] = strip(tr_in.rows[i].link)
                     /\ tr_out[2][k][8] = tr_in.rows[i].href
       ELSE tr_out = Null

\* a step made a publish call on a retry path
RetryCalled == /\ Len(publish_log') = Len(publish_log) + 1
               /\ publish_log'[Len(publish_log')].path \in RetryPaths

\* C23: in every step of the scheduler cycles, the manual and forced posts
\* and the single and bulk retries, no record's sent goes from true to false
\* and no record disappears; a record's sent goes from false to true only in
\* a step that made a retry publish call for that record which returned
\* true; and no retry, single or bulk, makes a publish call for a record
\* whose sent is already true.
C23_SentOnlyRises ==
    [][/\ Len(posts') >= Len(posts)
       /\ \A j \in 1..Len(posts) :
             /\ posts[j].sent => posts'[j].sent
             /\ (~posts[j].sent /\ posts'[j].sent) =>
                   /\ RetryCalled
                   /\ publish_log'[Len(publish_log')].row = j
                   /\ publish_log'[Len(publish_log')].result
       /\ RetryCalled => ~posts[publish_log'[Len(publish_log')].row].sent]_vars

\* C24: when the two concurrent classify calls on different uncached topics
\* have both returned, the in-memory cache and the cache file both hold an
\* entry for each of the two topics.
C24_BothEntriesKept ==
    (\A w \in Classifiers : sv_pc[w] = "done")
    => \A w \in Classifiers :
          /\ topic_cache[KeyOf(w)] # NoEntry
          /\ cache_file[KeyOf(w)] # NoEntry


\* C25: once an emergency-stop request has answered success (and no other
\* control request has answered since), no loop thread passes its while
\* condition into a further iteration, so no generate or publish call
\* follows beyond the one in flight.
C25_EmergencyStopEndsLoop ==
    [][(resp = "emergency_ok" /\ resp' = "emergency_ok")
       => \A t \in Threads : ~(pc[t] = "check" /\ pc'[t] = "iter")]_vars


\* what the step that leaves the branch on generate's result changed
BranchTaken == post_pc = "branch" /\ post_pc' # "branch"
NothingPosted == posts' = posts /\ publish_log' = publish_log

C27_FlagKeptForNewLoop ==
    [][(bot_running /\ ~bot_running')
       => \/ ctl_pc = "stop"
          \/ pc' = pc
          \/ \E t \in Threads : pc'[t] # pc[t] /\ bot_thread = Handle(t)]_vars


\* the loop thread is in its exit path, before or inside `with bot_lock`
Exiting(t) == pc[t] \in {"finally", "finally_locked", "tail"}

\* C28: a stop request that holds the bot lock in its join always returns
\* and releases the lock, also when the loop thread is waiting for that lock
\* in its exit path, and a loop thread that is in its exit path while stop
\* joins ends after the lock is released.
C28_StopCompletes ==
    /\ (ctl_pc = "join") ~> (ctl_pc = "idle" /\ bot_lock # CtlOwner)
    /\ \A t \in Threads :
          (ctl_pc = "join" /\ Exiting(t)) ~> (pc[t] = "dead")

\* stop holds the bot lock in its join while the loop thread it joins waits
\* for that lock in its exit path
C28_Witness ==
    /\ ctl_pc = "join"
    /\ bot_lock = CtlOwner
    /\ \E t \in Threads : bot_thread = Handle(t) /\ pc[t] = "finally"


\* each of the two calls holds the lock the other one waits for
LocksCrossed ==
    \E w \in InitCallers :
        /\ ipc[w] = "want_init" /\ client_lock = w
        /\ ipc["reset"] = "want_client" /\ init_lock = "reset"

\* C29: initialize_twitter_client and reset_initialization never reach a
\* state in which both wait for ever for the other's lock, and whenever the
\* client-initialised flag is true the client handle is not null.
C29_NoDeadlockClientSet ==
    /\ ~LocksCrossed
    /\ client_initialized => client # "None"


\* the test `tweet is None` of the loop applied to the last result of generate
DeclinedBranch == gn.result = Null

\* C30: no call of generate returns null, whatever the backend, the prompt
\* store and the request do, so the loop's declined-topic branch is never
\* taken on a result of generate.
C30_GenerateNeverNull ==
    /\ ~DeclinedBranch
    /\ gn.result[1] \in {"none", "str", "raise"}

\* a call whose request was sent and failed with an error a handler caught
\* has returned the empty string
C30_Witness ==
    /\ gn.sent = 1
    /\ gn.exc \notin {"none", "ResourceExhausted"}
    /\ gn.result = Returned(<<>>)

====
